---- MODULE Spec2Model ----
(***************************************************************************)
(* A model of YADBF, the streaming DBF decoder (src/index.js, with the     *)
(* quirk options of its later revision src/unnamed/part_002).              *)
(*                                                                         *)
(* Bytes are integers 0..255 and buffers are sequences of bytes.  The      *)
(* decoder object is the record `This`; its handlers _transform and _final *)
(* are the operators transform and final, applied by the actions Write and *)
(* End.  What the decoder tells the stream machinery is recorded, in       *)
(* order, in `events`: emit('header', h), push(record), push(null) and     *)
(* destroy(err).                                                           *)
(***************************************************************************)
EXTENDS Integers, Sequences, FiniteSets, TLC

VARIABLES
  options,               \* the options object given to new YADBF(options)
  construction,          \* whether the constructor ran, and how it ended
  input,                 \* the bytes the source holds
  delivered,             \* how many of them were written to the decoder
  finalCalled,           \* the source ended and _final ran
  unconsumedBytes,       \* this.unconsumedBytes
  header,                \* this.header
  totalRecordCount,      \* this.totalRecordCount
  eligibleRecordCount,   \* this.eligibleRecordCount
  offset,                \* this.offset
  size,                  \* this.size
  includeDeletedRecords, \* this.includeDeletedRecords
  quirks,                \* this.quirks
  customFieldParsers,    \* this.customFieldParsers
  events,                \* header / data / end / error, in the order raised
  callbacks,             \* callback() invocations of the latest handler call
  uncaught,              \* an exception escaped a handler
  other                  \* a second decoder instance and its source

vars == <<options, construction, input, delivered, finalCalled, unconsumedBytes, header,
          totalRecordCount, eligibleRecordCount, offset, size,
          includeDeletedRecords, quirks, customFieldParsers, events, callbacks,
          uncaught, other>>

----------------------------------------------------------------------------
(* Bounds of the model *)

MaxBody == 3      \* bytes that follow the header in a generated file
MaxBroken == 2    \* bytes that follow a header that breaks a rule
MaxChunk == 2     \* largest chunk between the first chunk and the last
MaxRecords == 2   \* largest declared record count of a generated file
PageRecords == 3  \* records of a generated well-formed file (pagination)
MaxOffset == 3    \* largest offset option
MaxSize == 2      \* largest finite size option
MaxFlag == 2      \* largest value of a flag byte of a generated header
MaxOption == 2    \* largest integer given as an offset or size option
MaxRuns == 3      \* most runs of equal characters in a generated Memo text

----------------------------------------------------------------------------
(* Values *)

Min(a, b) == IF a < b THEN a ELSE b
Max(a, b) == IF a > b THEN a ELSE b

\* `undefined`: this.header before it is parsed
NoHeader == [undefined |-> TRUE]

\* `undefined`: this.unconsumedBytes after `delete this.unconsumedBytes`
Deleted == <<-1>>

\* validateSize's default
Infinity == -1

EOFMarker == 26
FieldDescriptorArrayTerminator == 13
Space == 32
Asterisk == 42

\* version 2 read as well
supportedVersionsAnd2 == {2, 3, 131, 245, 139, 142}

supportedVersions == {3, 131, 245, 139, 142}
supportedFieldTypes == {"C", "D", "F", "L", "M", "N"}
truthyValues == {<<89>>, <<121>>, <<84>>, <<116>>}
\* '?' taken as a falsey value
falseyValuesAndUnknown == {<<78>>, <<110>>, <<70>>, <<102>>, <<63>>}

falseyValues == {<<78>>, <<110>>, <<70>>, <<102>>}

\* the key '@meta' as character codes
MetaKey == <<64, 109, 101, 116, 97>>

\* an error value: the message, and the value the message quotes
Err(msg, arg) == [msg |-> msg, arg |-> arg]

\* the outcome of a call that may throw
Throw(e) == [ok |-> FALSE, err |-> e]
Return(v) == [ok |-> TRUE, val |-> v]

----------------------------------------------------------------------------
(* Buffer *)

\* an index of Buffer.prototype.slice: negative counts from the end, clamped
SliceIndex(i, len) == IF i < 0 THEN Max(len + i, 0) ELSE Min(i, len)

\* Buffer.prototype.slice(start, end)
slice(buf, start, end) ==
  LET s == SliceIndex(start, Len(buf))
      e == SliceIndex(end, Len(buf))
  IN IF e <= s THEN <<>> ELSE SubSeq(buf, s + 1, e)

\* Buffer.prototype.slice(start)
\* a slice that drops one byte more
sliceFromNext(buf, start) ==
  SubSeq(buf, SliceIndex(start, Len(buf)) + 2, Len(buf))

sliceFrom(buf, start) == slice(buf, start, Len(buf))

readUInt8(buf, off) == buf[off + 1]

\* the two bytes read in the other order
readUInt16BE(buf, off) == 256 * buf[off + 1] + buf[off + 2]

readUInt16LE(buf, off) == buf[off + 1] + 256 * buf[off + 2]

readInt16LE(buf, off) ==
  LET u == readUInt16LE(buf, off)
  IN IF u >= 32768 THEN u - 65536 ELSE u

\* two's complement, 32 bits: the top bit weighs -2^31
readInt32LE(buf, off) ==
  LET low == buf[off + 1] + 256 * buf[off + 2] + 65536 * buf[off + 3]
             + 16777216 * (buf[off + 4] % 128)
  IN IF buf[off + 4] >= 128 THEN (low - 2147483647) - 1 ELSE low

\* Buffer.prototype.toString('utf-8', start, end) on ASCII bytes: one
\* character per byte, a byte that is no ASCII character decodes to U+FFFD
utf8(buf, start, end) ==
  LET b == slice(buf, start, end)
  IN [i \in 1..Len(b) |-> IF b[i] < 128 THEN b[i] ELSE 65533]

----------------------------------------------------------------------------
(* Header *)

\* the one-character type designator of a field descriptor
typeOf(code) ==
  CASE code = 67 -> "C"
    [] code = 68 -> "D"
    [] code = 70 -> "F"
    [] code = 76 -> "L"
    [] code = 77 -> "M"
    [] code = 78 -> "N"
    [] OTHER -> "unsupported"

hasEnoughBytesForHeader(chunk) ==
  Len(chunk) >= 32 /\ Len(chunk) >= readUInt16LE(chunk, 8)

\* a descriptor taken as it comes
parseHeaderFieldUnchecked(fieldBytes, i, q) ==
  Return([name |-> SelectSeq(utf8(slice(fieldBytes, i * 32, i * 32 + 32), 0, 10),
                             LAMBDA c : c # 0),
          type |-> typeOf(fieldBytes[i * 32 + 12]),
          length |-> fieldBytes[i * 32 + 17],
          precision |-> fieldBytes[i * 32 + 18],
          workAreaId |-> fieldBytes[i * 32 + 19] + 256 * fieldBytes[i * 32 + 20],
          isIndexedInMDXFile |-> (fieldBytes[i * 32 + 32] = 1)])

parseHeaderField(fieldBytes, i, q) ==
  LET field == slice(fieldBytes, i * 32, i * 32 + 32)
      length == readUInt8(field, 16)
      type == typeOf(utf8(field, 11, 12)[1])
      isIndexedInMDXFile == readUInt8(field, 31)
  IN IF length = 255 /\ ~q.allowFieldLength255
       THEN Throw(Err("Field length must be less than 255", <<>>))
     ELSE IF type \notin supportedFieldTypes
       THEN Throw(Err("Field type must be one of", <<>>))
     ELSE IF type = "D" /\ length # 8
       THEN Throw(Err("Invalid D (date) field length", <<length>>))
     ELSE IF type = "L" /\ length # 1
       THEN Throw(Err("Invalid L (logical) field length", <<length>>))
     ELSE IF type = "M" /\ length # 10
       THEN Throw(Err("Invalid M (memo) field length", <<length>>))
     ELSE IF isIndexedInMDXFile > 1
       THEN Throw(Err("Invalid indexed in production MDX file value",
                      <<isIndexedInMDXFile>>))
     ELSE Return([name |-> SelectSeq(utf8(field, 0, 10), LAMBDA c : c # 0),
                  type |-> type,
                  length |-> length,
                  precision |-> readUInt8(field, 17),
                  workAreaId |-> readUInt16LE(field, 18),
                  isIndexedInMDXFile |-> (isIndexedInMDXFile = 1)])

\* new Date(year, month, day), the arguments being numbers, <<n>>, or NaN,
\* <<>>: an invalid date when one is NaN; a year from 0 to 99 is taken as
\* 1900 + year; month counts from 0.  The fields are held as given: carrying
\* months beyond 11 and days beyond the month's end is the calendar's work.
Date(year, month, day) ==
  IF <<>> \in {year, month, day}
    THEN [type |-> "date", valid |-> FALSE, year |-> 0, month |-> 0, day |-> 0]
    ELSE [type |-> "date", valid |-> TRUE,
          year |-> IF year[1] \in 0..99 THEN 1900 + year[1] ELSE year[1],
          month |-> month[1], day |-> day[1]]

\* the header object parseHeader constructs and returns
headerObject(buffer, fields) ==
  [version |-> readUInt8(buffer, 0),
   dateOfLastUpdate |-> Date(<<1900 + readUInt8(buffer, 1)>>,
                            <<readUInt8(buffer, 2) - 1>>,
                            <<readUInt8(buffer, 3)>>),
   numberOfRecords |-> readInt32LE(buffer, 4),
   numberOfHeaderBytes |-> readUInt16LE(buffer, 8),
   numberOfBytesInRecord |-> readInt16LE(buffer, 10),
   hasProductionMDXFile |-> readUInt8(buffer, 28),
   langaugeDriverId |-> readUInt8(buffer, 29),
   fields |-> fields]

\* names that are never compared
duplicateCheckNone(buffer, fields) == Return(headerObject(buffer, fields))

\* header.fields.reduce(...): the first name that repeats an earlier one
duplicateCheck(buffer, fields) ==
  LET repeated == {j \in DOMAIN fields :
                     \E i \in 1..(j - 1) : fields[i].name = fields[j].name}
      firstRepeated == CHOOSE j \in repeated : \A k \in repeated : j <= k
  IN IF repeated # {}
       THEN Throw(Err("Duplicate field name", fields[firstRepeated].name))
       ELSE Return(headerObject(buffer, fields))

\* Array.from({length: numberOfFields}, parseHeaderField): the first
\* descriptor that throws ends the parse
fieldsCheck(buffer, parsed) ==
  LET failed == {i \in DOMAIN parsed : ~parsed[i].ok}
      firstFailed == CHOOSE i \in failed : \A j \in failed : i <= j
  IN IF failed # {}
       THEN Throw(parsed[firstFailed].err)
       ELSE duplicateCheck(buffer, [i \in DOMAIN parsed |-> parsed[i].val])

\* a validator that takes the declared length as it comes
parseHeaderAnyLength(buffer, q) ==
  fieldsCheck(buffer,
    [i \in 1..((readUInt16LE(buffer, 8) - 33) \div 32) |->
       parseHeaderField(slice(buffer, 32, readUInt16LE(buffer, 8)), i - 1, q)])

parseHeader(buffer, q) ==
  LET versionByte == readUInt8(buffer, 0)
      numberOfHeaderBytes == readUInt16LE(buffer, 8)
      numberOfFields == (numberOfHeaderBytes - 32 - 1) \div 32
      fieldBytes == slice(buffer, 32, numberOfHeaderBytes)
      encryptionByte == readUInt8(buffer, 15)
      hasProductionMDXFile == readUInt8(buffer, 28)
  IN IF versionByte \notin supportedVersions
       THEN Throw(Err("Unsupported version", <<versionByte>>))
     ELSE IF numberOfHeaderBytes % 32 # 1
       THEN Throw(Err("Invalid number of header bytes", <<numberOfHeaderBytes>>))
     ELSE IF numberOfHeaderBytes - 32 - 1 < 0
       \* fieldBytes.readUInt8 of a negative offset
       THEN Throw(Err("RangeError", <<numberOfHeaderBytes - 32 - 1>>))
     ELSE IF readUInt8(fieldBytes, numberOfHeaderBytes - 32 - 1)
               # FieldDescriptorArrayTerminator
       THEN Throw(Err("Invalid field descriptor array terminator at byte",
                      <<numberOfHeaderBytes>>))
     ELSE IF encryptionByte = 1
       THEN Throw(Err("Encryption flag is set, cannot process", <<>>))
     ELSE IF encryptionByte > 1 /\ ~q.ignoreUnknownEncryptionByte
       THEN Throw(Err("Invalid encryption flag value", <<encryptionByte>>))
     ELSE IF hasProductionMDXFile > 1
       THEN Throw(Err("Invalid production MDX file existence value",
                      <<hasProductionMDXFile>>))
     ELSE fieldsCheck(buffer,
            [i \in 1..numberOfFields |->
               parseHeaderField(fieldBytes, i - 1, q)])

----------------------------------------------------------------------------
(* Records *)

\* String.prototype.substr(start, length)
substr(s, start, length) == slice(s, start, start + length)

\* value.replace(/[\u0000 ]+$/, '')
RECURSIVE stripTrailing(_)
stripTrailing(s) ==
  IF s # <<>> /\ s[Len(s)] \in {0, Space}
    THEN stripTrailing(SubSeq(s, 1, Len(s) - 1))
    ELSE s

Digits == 48..57

\* /^(\d{10}| {10})$/.test(value)
validMTypeValueRegex(value) ==
  /\ Len(value) = 10
  /\ \/ \A i \in 1..10 : value[i] \in Digits
     \/ \A i \in 1..10 : value[i] = Space

\* spaces and digits in any order
validMTypeValueAnyOrder(value) ==
  \A i \in 1..Len(value) : value[i] \in Digits \cup {Space}

\* /^ {0,10}\d{0,10}$/.test(value)
validMTypeValuePaddedRegex(value) ==
  \E k \in 0..Min(10, Len(value)) :
    /\ Len(value) - k <= 10
    /\ \A i \in 1..k : value[i] = Space
    /\ \A i \in (k + 1)..Len(value) : value[i] \in Digits

\* the decimal value of a run of digits
RECURSIVE decimal(_)
decimal(s) ==
  IF s = <<>> THEN 0
  ELSE 10 * decimal(SubSeq(s, 1, Len(s) - 1)) + (s[Len(s)] - 48)

\* parseFloat(value) of a text without fraction or exponent: leading spaces
\* are skipped, an optional sign and the longest run of digits are read;
\* <<>> is NaN
parseFloat(value) ==
  LET lead == CHOOSE k \in 0..Len(value) :
                /\ \A i \in 1..k : value[i] = Space
                /\ k < Len(value) => value[k + 1] # Space
      t == SubSeq(value, lead + 1, Len(value))
      signed == t # <<>> /\ t[1] \in {43, 45}
      u == IF signed THEN SubSeq(t, 2, Len(t)) ELSE t
      run == CHOOSE k \in 0..Len(u) :
               /\ \A i \in 1..k : u[i] \in Digits
               /\ k < Len(u) => u[k + 1] \notin Digits
  IN IF run = 0 THEN <<>>
     ELSE <<(IF signed /\ t[1] = 45 THEN -1 ELSE 1) * decimal(SubSeq(u, 1, run))>>

\* ToNumber of a text, as the Date constructor applies it to a string
\* argument: white space is trimmed at both ends, the empty text is 0, an
\* optional sign and digits are read in base 10, anything else is NaN (texts
\* with a fraction, an exponent or a 0x prefix are not among the inputs)
RECURSIVE trimStart(_)
trimStart(s) == IF s # <<>> /\ s[1] = Space THEN trimStart(Tail(s)) ELSE s

ToNumber(s) ==
  LET t == stripTrailing(trimStart(s))
      signed == t # <<>> /\ t[1] \in {43, 45}
      u == IF signed THEN Tail(t) ELSE t
  IN IF 0 \in {s[i] : i \in 1..Len(s)} THEN <<>>
     ELSE IF t = <<>> THEN <<0>>
     ELSE IF u = <<>> \/ \E i \in 1..Len(u) : u[i] \notin Digits THEN <<>>
     ELSE <<(IF signed /\ t[1] = 45 THEN -1 ELSE 1) * decimal(u)>>

\* a Date field decoded with the month reduced by one
typeHandlers_DZeroIndexed(value) ==
  LET month == ToNumber(substr(value, 4, 2))
  IN Date(ToNumber(substr(value, 0, 4)),
          IF month = <<>> THEN <<>> ELSE <<month[1] - 1>>,
          ToNumber(substr(value, 6, 2)))

\* typeHandlers.D: new Date(value.substr(0, 4), value.substr(4, 2),
\* value.substr(6, 2))
typeHandlers_D(value) ==
  Date(ToNumber(substr(value, 0, 4)), ToNumber(substr(value, 4, 2)),
       ToNumber(substr(value, 6, 2)))

\* typeHandlers[type].call(this, value); a handler returns a tagged value
typeHandlers(type, value, q) ==
  CASE type = "D" ->
         Return(typeHandlers_D(value))
    [] type = "L" ->
         IF value \in truthyValues THEN Return([type |-> "boolean", value |-> TRUE])
         ELSE IF value \in falseyValues
           THEN Return([type |-> "boolean", value |-> FALSE])
         ELSE IF value # <<63>> /\ value # <<Space>> /\ ~q.typeL_allowUnknownValues
           THEN Throw(Err("Invalid L-type field value", value))
         ELSE Return([type |-> "undefined", value |-> <<>>])
    [] type \in {"F", "N"} ->
         Return([type |-> "number", value |-> parseFloat(value)])
    [] type = "C" ->
         Return([type |-> "string", value |-> stripTrailing(value)])
    [] type = "M" ->
         IF ~(IF q.typeM_allowLeftSpacePadding
                THEN validMTypeValuePaddedRegex(value)
                ELSE validMTypeValueRegex(value))
           THEN Throw(Err("Invalid M-type field value", value))
           ELSE Return([type |-> "string", value |-> value])

\* every first byte other than '*' taken as "not deleted"
isDeletedLenient(chunk) ==
  IF chunk = <<>> THEN Throw(Err("Invalid deleted record value", <<>>))
  ELSE Return(readUInt8(chunk, 0) = Asterisk)

\* chunk.readUInt8(0, 1) of an empty record chunk fails one way or the other
\* (a RangeError, or `undefined` that is neither flag): both are thrown
isDeleted(chunk) ==
  IF chunk = <<>> THEN Throw(Err("Invalid deleted record value", <<>>))
  ELSE IF readUInt8(chunk, 0) = Space THEN Return(FALSE)
  ELSE IF readUInt8(chunk, 0) = Asterisk THEN Return(TRUE)
  ELSE Throw(Err("Invalid deleted record value", <<readUInt8(chunk, 0)>>))

\* record[key] = value
Put(record, key, value) ==
  [k \in DOMAIN record \cup {key} |-> IF k = key THEN value ELSE record[k]]

\* the names of the properties every object inherits from Object.prototype
\* that fit a field name: 'toString', 'valueOf', '__proto__'
ToStringKey == <<116, 111, 83, 116, 114, 105, 110, 103>>
ValueOfKey == <<118, 97, 108, 117, 101, 79, 102>>
ProtoKey == <<95, 95, 112, 114, 111, 116, 111, 95, 95>>

\* '[object Object]'
ObjectObject == <<91, 111, 98, 106, 101, 99, 116, 32, 79, 98, 106, 101, 99, 116, 93>>

\* no property of that name
NoProperty == [kind |-> "none", id |-> ""]

\* this.customFieldParsers[name]: a property of the object itself, or one
\* it inherits from Object.prototype
customFieldParser(parsers, name) ==
  IF name \in DOMAIN parsers THEN [kind |-> "own", id |-> parsers[name]]
  ELSE IF name = ToStringKey THEN [kind |-> "inherited", id |-> "toString"]
  ELSE IF name = ValueOfKey THEN [kind |-> "inherited", id |-> "valueOf"]
  ELSE IF name = ProtoKey THEN [kind |-> "inherited", id |-> "__proto__"]
  ELSE NoProperty

\* this.customFieldParsers[field.name](bValue, field).  The parsers a caller
\* configures are "raw", which returns what it was given, and "throws";
\* Object.prototype.toString and valueOf act on the parsers object, and
\* Object.prototype itself is no function
callParser(parser, bValue, field) ==
  CASE parser.kind = "own" /\ parser.id = "raw" ->
         Return([type |-> "custom", bytes |-> bValue, field |-> field])
    [] parser.kind = "own" /\ parser.id = "throws" ->
         Throw(Err("custom parser failed", bValue))
    [] parser.kind = "inherited" /\ parser.id = "toString" ->
         Return([type |-> "string", value |-> ObjectObject])
    [] parser.kind = "inherited" /\ parser.id = "valueOf" ->
         Return([type |-> "object", value |-> <<>>])
    [] parser.kind = "inherited" /\ parser.id = "__proto__" ->
         Throw(Err("this.customFieldParsers[field.name] is not a function", <<>>))

\* the value of one field: the custom parser's on the bytes, or the type
\* handler's on the decoded text
fieldValue(parser, chunk, field, byteOffset, q) ==
  IF parser # NoProperty
    THEN callParser(parser, slice(chunk, byteOffset, byteOffset + field.length),
                    field)
    ELSE typeHandlers(field.type,
                      utf8(chunk, byteOffset, byteOffset + field.length), q)

\* header.fields.forEach(...) from field i on, byteOffset bytes into the chunk
RECURSIVE assignFields(_, _, _, _, _, _, _)

\* record[field.name] = the decoded value, then the next field
assignField(record, chunk, fields, i, byteOffset, q, parsers, decoded) ==
  IF ~decoded.ok THEN decoded
  ELSE assignFields(Put(record, fields[i].name, decoded.val), chunk, fields,
                    i + 1, byteOffset + fields[i].length, q, parsers)

assignFields(record, chunk, fields, i, byteOffset, q, parsers) ==
  IF i > Len(fields) THEN Return(record)
  ELSE assignField(record, chunk, fields, i, byteOffset, q, parsers,
         fieldValue(customFieldParser(parsers, fields[i].name), chunk,
                    fields[i], byteOffset, q))

\* a conversion that leaves the fields of a deleted record undecoded
recordOfLazy(deleted, chunk, h, q, parsers) ==
  IF ~deleted.ok THEN deleted
  ELSE IF deleted.val
    THEN Return(MetaKey :> [type |-> "meta", value |-> TRUE])
  ELSE assignFields(MetaKey :> [type |-> "meta", value |-> FALSE],
                    chunk, h.fields, 1, 1, q, parsers)

\* the record, given what isDeleted gave
recordOf(deleted, chunk, h, q, parsers) ==
  IF ~deleted.ok THEN deleted
  ELSE assignFields(MetaKey :> [type |-> "meta", value |-> deleted.val],
                    chunk, h.fields, 1, 1, q, parsers)

convertToRecord(chunk, h, q, parsers) ==
  recordOf(isDeleted(chunk), chunk, h, q, parsers)

hasEnoughBytesForRecord(chunk, h) == Len(chunk) >= h.numberOfBytesInRecord

\* a loop that never looks at the declared count
moreRecordsAlways(this) == TRUE

\* a loop that runs once more than the declared count
moreRecordsUpToCount(this) == this.totalRecordCount <= this.header.numberOfRecords

moreRecordsAreExpected(this) == this.totalRecordCount < this.header.numberOfRecords

\* !record['@meta'].deleted || !!includeDeletedRecords; reading .deleted of
\* `undefined` throws, of any other value that is no object gives `undefined`
\* every record taken as eligible
isEligibleAlways(record, includeDeleted) == Return(TRUE)

isEligibleForOutput(record, includeDeleted) ==
  LET meta == record[MetaKey]
  IN IF meta.type = "undefined"
       THEN Throw(Err("TypeError", MetaKey))
     ELSE IF meta.type = "meta"
       THEN Return(~meta.value \/ includeDeleted)
     ELSE Return(TRUE)

\* a page without an upper end
isWithinPageNoSize(count, off, sz) == count >= off

isWithinPage(count, off, sz) ==
  count >= off /\ (sz = Infinity \/ count < off + sz)

allRecordsHaveBeenProcessed(expectedNumberOfRecords, numberOfRecordsProcessed) ==
  expectedNumberOfRecords = numberOfRecordsProcessed

aSingleByteRemains(bytes) == Len(bytes) = 1

\* a space taken for the end-of-file marker
firstByteIsSpace(bytes) == readUInt8(bytes, 0) = Space

firstByteIsEOFMarker(bytes) == readUInt8(bytes, 0) = EOFMarker

----------------------------------------------------------------------------
(* The decoder *)

\* options.customFieldParsers || {}: an object without properties of its own
NoParsers == <<>>

\* the decoder object, as a handler finds it when it is called; with it,
\* how often the handler has called back and how many iterations of the
\* record loop it has begun
This ==
  [unconsumedBytes |-> unconsumedBytes,
   header |-> header,
   totalRecordCount |-> totalRecordCount,
   eligibleRecordCount |-> eligibleRecordCount,
   offset |-> offset,
   size |-> size,
   includeDeletedRecords |-> includeDeletedRecords,
   quirks |-> quirks,
   customFieldParsers |-> customFieldParsers,
   events |-> events,
   callbacks |-> 0,
   iterations |-> 0,
   uncaught |-> uncaught]

\* new YADBF(options): the object the constructor leaves
constructor(off, sz, deleted, q) ==
  [unconsumedBytes |-> <<>>,
   header |-> NoHeader,
   totalRecordCount |-> 0,
   eligibleRecordCount |-> 0,
   offset |-> off,
   size |-> sz,
   includeDeletedRecords |-> deleted,
   quirks |-> q,
   customFieldParsers |-> NoParsers,
   events |-> <<>>,
   callbacks |-> 0,
   iterations |-> 0,
   uncaught |-> FALSE]

\* a JavaScript value given as an option: its type, and its number or its
\* string.  A "fraction" is a finite number that is no integer (num + 0.5),
\* "Infinity" carries its sign in num.
JSValue(type, num, str) == [type |-> type, num |-> num, str |-> str]
undefined == JSValue("undefined", 0, "")
JSInteger(n) == JSValue("integer", n, "")
JSBoolean(b) == JSValue("boolean", IF b THEN 1 ELSE 0, "")
JSString(s) == JSValue("string", 0, s)

\* value < 0, after the conversion to a number `<` applies
lessThanZero(value) ==
  value.type \in {"integer", "fraction", "Infinity"} /\ value.num < 0

\* Number.isInteger(value)
NumberIsInteger(value) == value.type = "integer"

\* Iconv.encodingExists(encoding), for the names the model uses
encodingExists(encoding) ==
  encoding.type = "string" /\ encoding.str \in {"utf-8", "latin1"}

validateOffset(offset_) ==
  IF offset_ = undefined THEN Return(0)
  ELSE IF lessThanZero(offset_) \/ ~NumberIsInteger(offset_)
    THEN Throw(Err("offset must be a non-negative integer", <<>>))
  ELSE Return(offset_.num)

\* a size that is never refused
validateSizeLoose(size_) ==
  Return(IF size_.type = "integer" THEN size_.num ELSE Infinity)

validateSize(size_) ==
  IF size_ = undefined THEN Return(Infinity)
  ELSE IF lessThanZero(size_) \/ ~NumberIsInteger(size_)
    THEN Throw(Err("size must be a non-negative integer", <<>>))
  ELSE Return(size_.num)

validateDeleted(deleted) ==
  IF deleted = undefined THEN Return(FALSE)
  ELSE IF deleted # JSBoolean(TRUE) /\ deleted # JSBoolean(FALSE)
    THEN Throw(Err("deleted must be a boolean", <<>>))
  ELSE Return(deleted = JSBoolean(TRUE))

validateEncoding(encoding) ==
  IF encoding = undefined THEN Return("utf-8")
  ELSE IF ~encodingExists(encoding)
    THEN Throw(Err("encoding not recognized", <<>>))
  ELSE Return(encoding.str)

\* the constructor's validations, in its order: the first that throws ends it
validated(off, sz, deleted, encoding, q) ==
  IF ~off.ok THEN off
  ELSE IF ~sz.ok THEN sz
  ELSE IF ~deleted.ok THEN deleted
  ELSE IF ~encoding.ok THEN encoding
  ELSE Return([this |-> constructor(off.val, sz.val, deleted.val, q),
               encoding |-> encoding.val])

\* this.customFieldParsers = options.customFieldParsers || {}
withParsers(made, parsers) ==
  IF ~made.ok THEN made
  ELSE Return([made.val EXCEPT !.this.customFieldParsers = parsers])

\* new YADBF(opts)
construct(opts) ==
  withParsers(
    validated(validateOffset(opts.offset), validateSize(opts.size),
              validateDeleted(opts.deleted), validateEncoding(opts.encoding),
              opts.quirks),
    opts.customFieldParsers)

\* a header parsed without notification
emitNoHeader(this, h) == this

\* this.emit('header', h)
emitHeader(this, h) ==
  [this EXCEPT !.events = Append(@, [type |-> "header", val |-> h])]

\* this.push(record)
push(this, record) ==
  [this EXCEPT !.events = Append(@, [type |-> "data", val |-> record])]

\* this.push(null)
pushNull(this) ==
  [this EXCEPT !.events = Append(@, [type |-> "end", val |-> <<>>])]

\* this.destroy(err)
destroy(this, err) ==
  [this EXCEPT !.events = Append(@, [type |-> "error", val |-> err])]

\* a handler that returns without calling callback()
callbackNever(this) == this

\* callback()
callback(this) == [this EXCEPT !.callbacks = @ + 1]

\* if (!this.header)
headerIsMissing(this) == this.header = NoHeader

\* a catch that counts the failing record as consumed and drops its bytes
abortLoopConsuming(this, err) ==
  [this |-> destroy([this EXCEPT
                       !.totalRecordCount = @ + 1,
                       !.unconsumedBytes =
                          sliceFrom(@, this.header.numberOfBytesInRecord)],
                    err),
   aborted |-> TRUE]

\* this.destroy(err); return callback() in the record loop's catch
abortLoop(this, err) == [this |-> destroy(this, err), aborted |-> TRUE]

\* the record loop of _transform; aborted when an iteration threw
RECURSIVE recordLoop(_)

\* the counters and the buffer after a record was decoded
countRecord(this, recordSizedChunk, record, eligible) ==
  IF ~eligible.ok THEN abortLoop(this, eligible.err)
  ELSE recordLoop(
    [(IF eligible.val
        THEN [(IF isWithinPage(this.eligibleRecordCount, this.offset, this.size)
                 THEN push(this, record)
                 ELSE this)
              EXCEPT !.eligibleRecordCount = @ + 1]
        ELSE this)
     EXCEPT !.totalRecordCount = @ + 1,
            !.unconsumedBytes = sliceFrom(@, Len(recordSizedChunk))])

\* the try block of one iteration, given what convertToRecord gave
outputRecord(this, recordSizedChunk, record) ==
  IF ~record.ok THEN abortLoop(this, record.err)
  ELSE countRecord(this, recordSizedChunk, record.val,
                   isEligibleForOutput(record.val, this.includeDeletedRecords))

\* one iteration of the record loop
processRecord(this, recordSizedChunk) ==
  outputRecord(this, recordSizedChunk,
               convertToRecord(recordSizedChunk, this.header, this.quirks,
                               this.customFieldParsers))

recordLoop(this) ==
  IF hasEnoughBytesForRecord(this.unconsumedBytes, this.header)
       /\ moreRecordsAreExpected(this)
    THEN processRecord([this EXCEPT !.iterations = @ + 1],
                       slice(this.unconsumedBytes, 0,
                             this.header.numberOfBytesInRecord))
    ELSE [this |-> this, aborted |-> FALSE]

\* the error the end-of-stream check raises over a wrong last byte
markerCheck(this) ==
  IF ~firstByteIsEOFMarker(this.unconsumedBytes)
    THEN destroy(this, Err("Last byte of file is not end-of-file marker", <<>>))
    ELSE this

\* the end-of-stream check that closes _transform
endOfStreamCheck(this) ==
  IF allRecordsHaveBeenProcessed(this.header.numberOfRecords,
                                 this.totalRecordCount)
       /\ aSingleByteRemains(this.unconsumedBytes)
    THEN pushNull([markerCheck(this) EXCEPT !.unconsumedBytes = Deleted])
    ELSE this

\* _transform after the record loop
afterLoop(looped) ==
  IF looped.aborted THEN callback(looped.this)
  ELSE callback(endOfStreamCheck(looped.this))

\* _transform from the record loop on
processRecords(this) == afterLoop(recordLoop(this))

\* the try block of the header branch, given what parseHeader gave
headerParsed(this, parsed) ==
  IF ~parsed.ok THEN callback(destroy(this, parsed.err))
  ELSE processRecords(
         [emitHeader(this, parsed.val) EXCEPT
            !.header = parsed.val,
            !.unconsumedBytes = sliceFrom(@, parsed.val.numberOfHeaderBytes)])

\* a header branch that takes the encryption quirk as set
afterAppendLenient(this) ==
  IF headerIsMissing(this)
    THEN IF ~hasEnoughBytesForHeader(this.unconsumedBytes)
           THEN callback(this)
           ELSE headerParsed(this,
                  parseHeader(this.unconsumedBytes,
                    [this.quirks EXCEPT !.ignoreUnknownEncryptionByte = TRUE]))
    ELSE processRecords(this)

\* _transform once the chunk is appended
afterAppend(this) ==
  IF headerIsMissing(this)
    THEN IF ~hasEnoughBytesForHeader(this.unconsumedBytes)
           THEN callback(this)
           ELSE headerParsed(this, parseHeader(this.unconsumedBytes, this.quirks))
    ELSE processRecords(this)

\* _transform(chunk, encoding, callback)
transform(this, chunk) ==
  IF this.unconsumedBytes = Deleted
    \* Buffer.concat([undefined, chunk]) throws a TypeError
    THEN [this EXCEPT !.uncaught = TRUE]
    ELSE afterAppend([this EXCEPT !.unconsumedBytes = @ \o chunk])

\* an end of input that checks nothing
finalSilent(this) == callback(this)

\* _final(callback)
final(this) ==
  IF headerIsMissing(this)
    THEN LET numberOfBytes == IF this.unconsumedBytes # Deleted
                                THEN Len(this.unconsumedBytes) ELSE 0
         IN callback(destroy(this,
              Err("Unable to parse first 32 bytes from header, found",
                  <<numberOfBytes>>)))
    ELSE callback(this)

\* the decoder object becomes `next`
Becomes(next) ==
  /\ unconsumedBytes' = next.unconsumedBytes
  /\ header' = next.header
  /\ totalRecordCount' = next.totalRecordCount
  /\ eligibleRecordCount' = next.eligibleRecordCount
  /\ events' = next.events
  /\ callbacks' = next.callbacks
  /\ uncaught' = next.uncaught
  /\ UNCHANGED <<offset, size, includeDeletedRecords, quirks,
                 customFieldParsers>>
  /\ UNCHANGED <<options, construction, other>>

\* the source writes the next n bytes as one chunk
Write(n) ==
  /\ construction.state = "done"
  /\ ~finalCalled
  /\ ~uncaught
  /\ delivered + n <= Len(input)
  /\ Becomes(transform(This, SubSeq(input, delivered + 1, delivered + n)))
  /\ delivered' = delivered + n
  /\ UNCHANGED <<input, finalCalled>>

\* the source ends
End ==
  /\ construction.state = "done"
  /\ ~finalCalled
  /\ ~uncaught
  /\ Becomes(final(This))
  /\ finalCalled' = TRUE
  /\ UNCHANGED <<input, delivered>>

\* the constructor has not run yet; it threw err
Pending == [state |-> "pending", encoding |-> "", err |-> Err("", <<>>)]
Threw(err) == [state |-> "threw", encoding |-> "", err |-> err]

\* new YADBF(options): the decoder object exists once the constructor
\* returns, and never when it throws
New ==
  /\ construction.state = "pending"
  /\ LET made == construct(options)
     IN IF made.ok
          THEN /\ construction' =
                    [state |-> "done", encoding |-> made.val.encoding,
                     err |-> Err("", <<>>)]
               /\ unconsumedBytes' = made.val.this.unconsumedBytes
               /\ header' = made.val.this.header
               /\ totalRecordCount' = made.val.this.totalRecordCount
               /\ eligibleRecordCount' = made.val.this.eligibleRecordCount
               /\ offset' = made.val.this.offset
               /\ size' = made.val.this.size
               /\ includeDeletedRecords' = made.val.this.includeDeletedRecords
               /\ quirks' = made.val.this.quirks
               /\ customFieldParsers' = made.val.this.customFieldParsers
               /\ events' = made.val.this.events
               /\ callbacks' = made.val.this.callbacks
               /\ uncaught' = made.val.this.uncaught
          ELSE /\ construction' = Threw(made.err)
               /\ UNCHANGED <<unconsumedBytes, header, totalRecordCount,
                              eligibleRecordCount, offset, size,
                              includeDeletedRecords, quirks,
                              customFieldParsers, events, callbacks,
                              uncaught>>
  /\ UNCHANGED <<options, input, delivered, finalCalled, other>>

\* the sizes the source may give the next chunk: the first chunk and the
\* chunk that brings all that remains have any size, the others a small one
ChunkSizes ==
  {n \in 1..(Len(input) - delivered) :
     delivered = 0 \/ n <= MaxChunk \/ delivered + n = Len(input)}

\* the stream machinery hands the decoder the next chunk, or the end, once
\* the handler it called last has called callback()
CallbackDone == delivered = 0 \/ callbacks >= 1

\* a source that writes the whole of its input, each chunk after the
\* callback of the one before, and then ends
NextComplete ==
  \/ \E n \in ChunkSizes : CallbackDone /\ Write(n)
  \/ CallbackDone /\ delivered = Len(input) /\ End

\* the second decoder object sharing the first one's buffer
OtherSharingBuffer ==
  [other.this EXCEPT !.callbacks = 0, !.iterations = 0,
                     !.unconsumedBytes = unconsumedBytes]

\* the second decoder object, as a handler finds it when it is called
Other == [other.this EXCEPT !.callbacks = 0, !.iterations = 0]

\* the variables of the first instance and of its source
first == <<options, construction, input, delivered, finalCalled,
           unconsumedBytes, header, totalRecordCount, eligibleRecordCount,
           offset, size, includeDeletedRecords, quirks, customFieldParsers,
           events, callbacks, uncaught>>

\* the source of the second instance writes its next n bytes as one chunk
WriteOther(n) ==
  /\ ~other.finalCalled
  /\ ~other.this.uncaught
  /\ other.delivered + n <= Len(other.input)
  /\ other' = [other EXCEPT
                 !.this = [transform(Other,
                                     SubSeq(other.input, other.delivered + 1,
                                            other.delivered + n))
                             EXCEPT !.iterations = 0],
                 !.delivered = @ + n]
  /\ UNCHANGED first

\* the source of the second instance ends
EndOther ==
  /\ ~other.finalCalled
  /\ ~other.this.uncaught
  /\ other' = [other EXCEPT !.this = final(Other), !.finalCalled = TRUE]
  /\ UNCHANGED first

\* the sizes the source of the second instance may give its next chunk
OtherChunkSizes ==
  {n \in 1..(Len(other.input) - other.delivered) :
     other.delivered = 0 \/ n <= MaxChunk
       \/ other.delivered + n = Len(other.input)}

\* two instances, each fed by its own source, in any interleaving
NextPair ==
  \/ \E n \in ChunkSizes : Write(n)
  \/ End
  \/ \E n \in OtherChunkSizes : WriteOther(n)
  \/ EndOther

Next ==
  \/ \E n \in ChunkSizes : Write(n)
  \/ End

----------------------------------------------------------------------------
(* Files *)

NoQuirks ==
  [typeL_allowUnknownValues |-> FALSE,
   typeM_allowLeftSpacePadding |-> FALSE,
   ignoreUnknownEncryptionByte |-> FALSE,
   allowFieldLength255 |-> FALSE]

\* n zero bytes
Zeros(n) == [i \in 1..n |-> 0]

\* the little-endian bytes of a 16-bit and of a 32-bit integer
LE16(v) == LET u == IF v < 0 THEN v + 65536 ELSE v
           IN <<u % 256, u \div 256>>
LE32(v) == LET u == IF v < 0 THEN (v + 2147483647) + 1 ELSE v
           IN <<u % 256, (u \div 256) % 256, (u \div 65536) % 256,
                (u \div 16777216) + (IF v < 0 THEN 128 ELSE 0)>>

\* the 32 bytes that open a file
FixedHeader(version, numberOfRecords, numberOfHeaderBytes, numberOfBytesInRecord, encryption, mdx) ==
  <<version, 97, 6, 25>> \o LE32(numberOfRecords) \o LE16(numberOfHeaderBytes)
    \o LE16(numberOfBytesInRecord) \o Zeros(3) \o <<encryption>> \o Zeros(12)
    \o <<mdx, 17>> \o Zeros(2)

\* a 32-byte field descriptor
FieldDescriptor(name, typeCode, length, indexed) ==
  name \o Zeros(11 - Len(name)) \o <<typeCode>> \o Zeros(4) \o <<length, 0>>
    \o LE16(0) \o Zeros(11) \o <<indexed>>

\* a 32-byte field descriptor with a precision and a work area id
FieldDescriptorWith(name, typeCode, length, precision, workAreaId, indexed) ==
  name \o Zeros(11 - Len(name)) \o <<typeCode>> \o Zeros(4)
    \o <<length, precision>> \o LE16(workAreaId) \o Zeros(11) \o <<indexed>>

BodyBytes == {Space, Asterisk, EOFMarker}

Bodies(maxLen) == UNION {[1..n -> BodyBytes] : n \in 0..maxLen}

\* files without fields: the header is accepted
PlainFiles ==
  {FixedHeader(3, n, 33, len, 0, 0) \o <<FieldDescriptorArrayTerminator>> \o b :
     n \in 0..MaxRecords, len \in -1..2, b \in Bodies(MaxBody)}

\* headers that break one rule of the fixed 32 bytes
BrokenFixedHeaders ==
  { FixedHeader(2, 1, 33, 1, 0, 0) \o <<FieldDescriptorArrayTerminator>>,
    FixedHeader(3, 1, 34, 1, 0, 0) \o <<0, FieldDescriptorArrayTerminator>>,
    FixedHeader(3, 1, 1, 1, 0, 0) \o <<FieldDescriptorArrayTerminator>>,
    FixedHeader(3, 1, 33, 1, 0, 0) \o <<0>>,
    FixedHeader(3, 1, 33, 1, 1, 0) \o <<FieldDescriptorArrayTerminator>>,
    FixedHeader(3, 1, 33, 1, 2, 0) \o <<FieldDescriptorArrayTerminator>>,
    FixedHeader(3, 1, 33, 1, 0, 2) \o <<FieldDescriptorArrayTerminator>> }

\* headers with a field descriptor that breaks one rule
BrokenFieldHeaders ==
  {FixedHeader(3, 1, 65, 2, 0, 0) \o d \o <<FieldDescriptorArrayTerminator>> :
     d \in { FieldDescriptor(<<102>>, 67, 255, 0),
             FieldDescriptor(<<102>>, 88, 1, 0),
             FieldDescriptor(<<102>>, 68, 1, 0),
             FieldDescriptor(<<102>>, 76, 2, 0),
             FieldDescriptor(<<102>>, 77, 1, 0),
             FieldDescriptor(<<102>>, 67, 1, 2) }}
  \cup
  { FixedHeader(3, 1, 97, 3, 0, 0) \o FieldDescriptor(<<102>>, 67, 1, 0)
      \o FieldDescriptor(<<102>>, 76, 1, 0) \o <<FieldDescriptorArrayTerminator>> }

BrokenFiles ==
  {h \o b : h \in BrokenFixedHeaders \cup BrokenFieldHeaders,
            b \in Bodies(MaxBroken)}

\* files with one one-byte field, named '@meta' or 'f', of type C or L,
\* that declare one record, and files with a field that declare none
FieldFiles ==
  {FixedHeader(139, 1, 65, 2, 0, 0) \o FieldDescriptor(name, typeCode, 1, 0)
     \o <<FieldDescriptorArrayTerminator>> \o b :
     name \in {MetaKey, <<102>>}, typeCode \in {67, 76}, b \in Bodies(MaxBody)}
  \cup
  {FixedHeader(139, 0, 65, 2, 0, 0) \o FieldDescriptor(<<102>>, 67, 1, 0)
     \o <<FieldDescriptorArrayTerminator>> \o b : b \in Bodies(MaxBody)}

\* the values of a Logical field: Y y T t, N n F f, '?', ' ', and
\* 'X', '1', NUL
LogicalBytes == {89, 121, 84, 116, 78, 110, 70, 102, 63, Space, 88, 49, 0}

\* the header of a file with one L field 'f' that declares n records
LogicalHeader(n) ==
  FixedHeader(3, n, 65, 2, 0, 0) \o FieldDescriptor(<<102>>, 76, 1, 0)
    \o <<FieldDescriptorArrayTerminator>>

\* files of one or two records with one L field, then the end-of-file marker
LogicalFiles ==
  {LogicalHeader(1) \o <<flag, v, EOFMarker>> :
     flag \in {Space, Asterisk}, v \in LogicalBytes}
  \cup
  {LogicalHeader(2) \o <<flag1, v1, flag2, v2, EOFMarker>> :
     flag1 \in {Space, Asterisk}, v1 \in {89, 63, 88},
     flag2 \in {Space, Asterisk}, v2 \in LogicalBytes}

\* the values of a Memo field: texts of spaces and the digit '4' in at most
\* MaxRuns runs, '1357924680', and texts with a letter or a line feed in them
MemoValues ==
  {v \in [1..10 -> {Space, 52}] :
     Cardinality({i \in 1..9 : v[i] # v[i + 1]}) < MaxRuns}
  \cup {<<49, 51, 53, 55, 57, 50, 52, 54, 56, 48>>}
  \cup {[i \in 1..10 |-> IF i = at THEN odd ELSE usual] :
          at \in {1, 5, 10}, odd \in {120, 10}, usual \in {Space, 52}}

\* files of one record with one M field 'f', then the end-of-file marker
MemoFiles ==
  {FixedHeader(139, 1, 65, 11, 0, 0) \o FieldDescriptor(<<102>>, 77, 10, 0)
     \o <<FieldDescriptorArrayTerminator, flag>> \o v \o <<EOFMarker>> :
     flag \in {Space, Asterisk}, v \in MemoValues}

\* the texts of a Date field: dates in digits, and texts with spaces, a
\* letter or a NUL in them
DateTexts ==
  {y \o m \o d :
     y \in {<<49, 57, 53, 50>>, <<50, 48, 50, 52>>, <<48, 48, 53, 50>>},
     m \in {<<48, 55>>, <<49, 50>>, <<48, 48>>, <<48, 49>>},
     d \in {<<49, 57>>, <<51, 49>>, <<48, 49>>}}
  \cup {[i \in 1..8 |-> Space],
        <<49, 57, 53, 50, Space, 55, 49, 57>>,
        <<49, 57, 53, 50, 48, 120, 49, 57>>,
        <<49, 57, 53, 50, 48, 55, 49, 0>>}

\* the bytes 1 to 3 of a header: the year since 1900, the month and the day
\* of the last update
HeaderDates == {<<y, m, d>> : y \in {0, 97, 255}, m \in {0, 1, 7, 12}, d \in {0, 19, 31}}

\* a file of one record with one D field 'f', then the end-of-file marker
DateFile(updated, flag, text) ==
  <<139>> \o updated \o SubSeq(FixedHeader(139, 1, 65, 9, 0, 0), 5, 32)
    \o FieldDescriptor(<<102>>, 68, 8, 0)
    \o <<FieldDescriptorArrayTerminator, flag>> \o text \o <<EOFMarker>>

DateFiles ==
  {DateFile(<<97, 6, 25>>, flag, text) :
     flag \in {Space, Asterisk}, text \in DateTexts}
  \cup
  {DateFile(updated, Space, <<49, 57, 53, 50, 48, 55, 49, 57>>) :
     updated \in HeaderDates}

\* files of one record with two one-byte fields, the first named 'f' or as
\* a property of Object.prototype and of type L or C, the second an L field
\* 'g', then the end-of-file marker
CustomFiles ==
  {FixedHeader(3, 1, 97, 3, 0, 0) \o FieldDescriptor(name, typeCode, 1, 0)
     \o FieldDescriptor(<<103>>, 76, 1, 0)
     \o <<FieldDescriptorArrayTerminator, Space, v1, v2, EOFMarker>> :
     name \in {<<102>>, ToStringKey, ValueOfKey, ProtoKey},
     typeCode \in {76, 67}, v1 \in {89, 88, Space}, v2 \in {89, 88, Space}}

\* the customFieldParsers objects a caller configures
CustomParsers ==
  {NoParsers, <<102>> :> "raw", <<102>> :> "throws", <<103>> :> "raw",
   ToStringKey :> "raw"}

\* well-formed files: 2 to PageRecords records of a one-byte C field 'f'
\* holding 'a', 'b', ..., each deleted or not, then the end-of-file marker
RECURSIVE PageBody(_, _)
PageBody(flags, i) ==
  IF i > Len(flags) THEN <<EOFMarker>>
  ELSE <<flags[i], 96 + i>> \o PageBody(flags, i + 1)

PageFilesOf(n) ==
  {FixedHeader(139, n, 65, 2, 0, 0)
     \o FieldDescriptor(<<102>>, 67, 1, 0)
     \o <<FieldDescriptorArrayTerminator>> \o PageBody(flags, 1) :
     flags \in [1..n -> {Space, Asterisk}]}

PageFiles == UNION {PageFilesOf(n) : n \in 2..PageRecords}

\* headers without fields, one for every version byte
VersionFiles ==
  {FixedHeader(version, 0, 33, 0, 0, 0)
     \o <<FieldDescriptorArrayTerminator, EOFMarker>> : version \in 0..255}

\* headers without fields: every combination of a version, a declared
\* length, a last header byte, an encryption flag and a production MDX flag
FixedPartFiles ==
  {FixedHeader(version, 0, numberOfHeaderBytes, 0, encryption, mdx)
     \o <<terminator, EOFMarker>> :
     version \in {2, 3}, numberOfHeaderBytes \in {1, 33, 34},
     terminator \in {FieldDescriptorArrayTerminator, 12},
     encryption \in 0..MaxFlag, mdx \in 0..MaxFlag}

\* descriptors of a field 'f' or 'f\0g': every type letter and 'X', the
\* lengths the rules name, and every value of the indexed byte
Descriptors ==
  {FieldDescriptorWith(name, typeCode, length, 5, 258, indexed) :
     name \in {<<102>>, <<102, 0, 103>>},
     typeCode \in {67, 68, 70, 76, 77, 78, 88},
     length \in {1, 8, 10, 255}, indexed \in 0..MaxFlag}

\* headers with one field
OneFieldFiles ==
  {FixedHeader(139, 0, 65, 0, 0, 0) \o d
     \o <<FieldDescriptorArrayTerminator, EOFMarker>> : d \in Descriptors}

\* descriptors that are accepted ('f', 'g', and 'f' again as an N field) and
\* descriptors that break a rule
PairDescriptors ==
  { FieldDescriptor(<<102>>, 67, 1, 0),
    FieldDescriptor(<<103>>, 67, 1, 0),
    FieldDescriptor(<<102, 0, 0, 0>>, 78, 1, 1),
    FieldDescriptor(<<102>>, 88, 1, 0),
    FieldDescriptor(<<103>>, 76, 2, 0),
    FieldDescriptor(<<102>>, 67, 1, 2) }

\* headers with two fields
TwoFieldFiles ==
  {FixedHeader(139, 0, 97, 0, 0, 0) \o d1 \o d2
     \o <<FieldDescriptorArrayTerminator, EOFMarker>> :
     d1 \in PairDescriptors, d2 \in PairDescriptors}

\* headers with three valid fields, some of the same name
ThreeFieldFiles ==
  {FixedHeader(139, 0, 129, 0, 0, 0)
     \o FieldDescriptor(<<n1>>, 67, 1, 0) \o FieldDescriptor(<<n2>>, 67, 1, 0)
     \o FieldDescriptor(<<n3>>, 67, 1, 0)
     \o <<FieldDescriptorArrayTerminator, EOFMarker>> :
     n1 \in {102, 103}, n2 \in {102, 103}, n3 \in {102, 103, 104}}

\* values given as offset or size: none, integers, and values that are
\* no integer
NumberOptions ==
  {undefined} \cup {JSInteger(n) : n \in -1..MaxOption}
  \cup {JSValue("fraction", 1, ""), JSValue("Infinity", 1, ""),
        JSValue("Infinity", -1, ""), JSValue("NaN", 0, ""), JSString("1"),
        JSValue("null", 0, ""), JSBoolean(TRUE)}

\* values given as deleted
DeletedOptions ==
  {undefined, JSBoolean(TRUE), JSBoolean(FALSE), JSValue("null", 0, ""),
   JSInteger(0), JSInteger(1), JSString("true")}

\* values given as encoding
EncodingOptions ==
  {undefined, JSString("utf-8"), JSString("latin1"), JSString("bogus"),
   JSInteger(1)}

\* the constructor returned, with this.encoding as given
Done(encoding) ==
  [state |-> "done", encoding |-> encoding, err |-> Err("", <<>>)]

\* the options object that spells out the given values
OptionsOf(off, sz, deleted, q) ==
  [offset |-> JSInteger(off),
   size |-> IF sz = Infinity THEN undefined ELSE JSInteger(sz),
   deleted |-> JSBoolean(deleted),
   encoding |-> undefined,
   quirks |-> q,
   customFieldParsers |-> NoParsers]

\* a second instance constructed over the given input, nothing written yet
Second(file, off, sz, deleted, q) ==
  [this |-> constructor(off, sz, deleted, q), input |-> file,
   delivered |-> 0, finalCalled |-> FALSE]

\* no second instance: one that is never written to
Alone ==
  [this |-> constructor(0, Infinity, FALSE, NoQuirks), input |-> <<>>,
   delivered |-> 0, finalCalled |-> TRUE]

\* a decoder constructed with the given options, nothing written yet
Decoder(off, sz, deleted, q, parsers) ==
  LET this == [constructor(off, sz, deleted, q)
                 EXCEPT !.customFieldParsers = parsers]
  IN /\ options = [OptionsOf(off, sz, deleted, q)
                     EXCEPT !.customFieldParsers = parsers]
     /\ construction = Done("utf-8")
     /\ unconsumedBytes = this.unconsumedBytes
     /\ header = this.header
     /\ totalRecordCount = this.totalRecordCount
     /\ eligibleRecordCount = this.eligibleRecordCount
     /\ offset = this.offset
     /\ size = this.size
     /\ includeDeletedRecords = this.includeDeletedRecords
     /\ quirks = this.quirks
     /\ customFieldParsers = this.customFieldParsers
     /\ events = this.events
     /\ callbacks = this.callbacks
     /\ uncaught = this.uncaught
     /\ delivered = 0
     /\ finalCalled = FALSE

\* one decoder constructed with the given options
ConstructedWith(off, sz, deleted, q, parsers) ==
  /\ Decoder(off, sz, deleted, q, parsers)
  /\ other = Alone

\* a decoder constructed without custom field parsers
Constructed(off, sz, deleted, q) ==
  ConstructedWith(off, sz, deleted, q, NoParsers)

\* files without fields and files whose header is rejected
Init ==
  /\ input \in PlainFiles \cup BrokenFiles
  /\ \E deleted \in BOOLEAN : Constructed(0, Infinity, deleted, NoQuirks)

Spec == Init /\ [][Next]_vars

\* files with one field
InitFields ==
  /\ input \in FieldFiles
  /\ \E deleted \in BOOLEAN : Constructed(0, Infinity, deleted, NoQuirks)

SpecFields == InitFields /\ [][Next]_vars

\* well-formed files decoded under every pagination option
InitPage ==
  /\ input \in PageFiles
  /\ \E off \in 0..MaxOffset, sz \in (0..MaxSize) \cup {Infinity},
        deleted \in BOOLEAN :
       Constructed(off, sz, deleted, NoQuirks)

SpecPage == InitPage /\ [][Next]_vars

\* files with a Logical field, with and without the quirk for its values
InitLogical ==
  /\ input \in LogicalFiles
  /\ \E deleted \in BOOLEAN, lenient \in BOOLEAN :
       Constructed(0, Infinity, deleted,
         [NoQuirks EXCEPT !.typeL_allowUnknownValues = lenient])

SpecLogical == InitLogical /\ [][Next]_vars

\* files with a Memo field, with and without the quirk for its values
InitMemo ==
  /\ input \in MemoFiles
  /\ \E lenient \in BOOLEAN :
       Constructed(0, Infinity, TRUE,
         [NoQuirks EXCEPT !.typeM_allowLeftSpacePadding = lenient])

SpecMemo == InitMemo /\ [][Next]_vars

\* files with a Date field
InitDate ==
  /\ input \in DateFiles
  /\ \E deleted \in BOOLEAN : Constructed(0, Infinity, deleted, NoQuirks)

SpecDate == InitDate /\ [][Next]_vars

\* files decoded with custom field parsers
InitCustom ==
  /\ input \in CustomFiles
  /\ \E parsers \in CustomParsers :
       ConstructedWith(0, Infinity, FALSE, NoQuirks, parsers)

SpecCustom == InitCustom /\ [][Next]_vars

\* the files of the first of two instances: two records without fields, the
\* second with a flag that may be wrong, and a header of an unknown version
PairFiles ==
  {FixedHeader(3, 2, 33, 1, 0, 0)
     \o <<FieldDescriptorArrayTerminator, Asterisk, flag, EOFMarker>> :
     flag \in {Space, EOFMarker}}
  \cup {FixedHeader(2, 0, 33, 1, 0, 0) \o <<FieldDescriptorArrayTerminator>>}

\* the files of the second: one record with an L field, its end-of-file
\* marker right or wrong, and a file cut short within its header
OtherFiles ==
  {LogicalHeader(1) \o <<Space, v, marker>> :
     v \in {89, 88}, marker \in {EOFMarker}}
  \cup {LogicalHeader(1) \o <<Space, 89, Space>>,
        SubSeq(LogicalHeader(1), 1, 3)}

\* two instances over independent inputs
InitPair ==
  /\ input \in PairFiles
  /\ Decoder(0, Infinity, TRUE, NoQuirks, NoParsers)
  /\ other \in {Second(file, 0, Infinity, FALSE, NoQuirks) : file \in OtherFiles}

SpecPair == InitPair /\ [][NextPair]_vars

\* well-formed complete files without fields: the header, the declared
\* number of records, deleted or not, and the end-of-file marker
CompleteFilesOf(n) ==
  {FixedHeader(3, n, 33, 1, 0, 0) \o <<FieldDescriptorArrayTerminator>>
     \o flags \o <<EOFMarker>> : flags \in [1..n -> {Space, Asterisk}]}

CompleteFiles == UNION {CompleteFilesOf(n) : n \in 0..MaxRecords}

InitComplete ==
  /\ input \in CompleteFiles
  /\ \E deleted \in BOOLEAN : Constructed(0, Infinity, deleted, NoQuirks)

\* well-formed files written whole and then ended; the source goes on as
\* long as it has a chunk or the end to give and the decoder has called back
SpecComplete ==
  InitComplete /\ [][NextComplete]_vars /\ WF_vars(NextComplete)

\* files without fields whose header declares -1 to MaxRecords records of
\* one byte, followed by up to MaxBody bytes, more or fewer than declared
CountedFiles ==
  {FixedHeader(3, n, 33, 1, 0, 0) \o <<FieldDescriptorArrayTerminator>> \o b :
     n \in -1..MaxRecords, b \in Bodies(MaxBody)}

\* such files decoded under pagination options
InitCounted ==
  /\ input \in CountedFiles
  /\ \E off \in 0..1, sz \in {0, 1, Infinity}, deleted \in BOOLEAN :
       Constructed(off, sz, deleted, NoQuirks)

SpecCounted == InitCounted /\ [][Next]_vars

\* the texts of a Memo field of a record that may fail: ten digits, ten
\* spaces, and a text with a letter in it
FailingMemos ==
  {[i \in 1..10 |-> 52], [i \in 1..10 |-> Space],
   [i \in 1..10 |-> IF i = 10 THEN 120 ELSE 52]}

\* the records of a file with one L field and of a file with one M field:
\* a flag that may be wrong and a value that may be wrong
FailingLogicalRecords ==
  {<<flag, v>> : flag \in {Space, Asterisk, EOFMarker}, v \in {89, 63, 88}}
FailingMemoRecords ==
  {<<flag>> \o v : flag \in {Space, Asterisk, EOFMarker}, v \in FailingMemos}

\* files of two records with one L field or one M field 'f', then the
\* end-of-file marker
FailingFiles ==
  {LogicalHeader(2) \o r1 \o r2 \o <<EOFMarker>> :
     r1 \in FailingLogicalRecords, r2 \in FailingLogicalRecords}
  \cup
  {FixedHeader(139, 2, 65, 11, 0, 0) \o FieldDescriptor(<<102>>, 77, 10, 0)
     \o <<FieldDescriptorArrayTerminator>> \o r1 \o r2 \o <<EOFMarker>> :
     r1 \in FailingMemoRecords, r2 \in FailingMemoRecords}

\* such files decoded under pagination options
InitFailing ==
  /\ input \in FailingFiles
  /\ \E off \in 0..1, sz \in {1, Infinity}, deleted \in BOOLEAN :
       Constructed(off, sz, deleted, NoQuirks)

SpecFailing == InitFailing /\ [][Next]_vars

\* headers of every kind, accepted or not, under the quirks that bear on them
InitHeader ==
  \/ /\ input \in VersionFiles
     /\ Constructed(0, Infinity, FALSE, NoQuirks)
  \/ /\ input \in FixedPartFiles
     /\ \E lenient \in BOOLEAN :
          Constructed(0, Infinity, FALSE,
            [NoQuirks EXCEPT !.ignoreUnknownEncryptionByte = lenient])
  \/ /\ input \in OneFieldFiles
     /\ \E lenient \in BOOLEAN :
          Constructed(0, Infinity, FALSE,
            [NoQuirks EXCEPT !.allowFieldLength255 = lenient])
  \/ /\ input \in TwoFieldFiles \cup ThreeFieldFiles
     /\ Constructed(0, Infinity, FALSE, NoQuirks)

SpecHeader == InitHeader /\ [][Next]_vars

\* an options object of every kind, the constructor yet to run on it, and
\* a file of three records to decode if it returns
InitOptions ==
  /\ options \in [offset : NumberOptions, size : NumberOptions,
                  deleted : DeletedOptions, encoding : EncodingOptions,
                  quirks : {NoQuirks}, customFieldParsers : {NoParsers}]
  /\ construction = Pending
  /\ input = FixedHeader(3, 3, 33, 1, 0, 0)
               \o <<FieldDescriptorArrayTerminator, Asterisk, Space, Space,
                    EOFMarker>>
  /\ unconsumedBytes = <<>>
  /\ header = NoHeader
  /\ totalRecordCount = 0
  /\ eligibleRecordCount = 0
  /\ offset = 0
  /\ size = Infinity
  /\ includeDeletedRecords = FALSE
  /\ quirks = NoQuirks
  /\ customFieldParsers = NoParsers
  /\ events = <<>>
  /\ callbacks = 0
  /\ uncaught = FALSE
  /\ delivered = 0
  /\ finalCalled = FALSE
  /\ other = Alone

NextOptions ==
  \/ New
  \/ Next

SpecOptions == InitOptions /\ [][NextOptions]_vars

----------------------------------------------------------------------------
(* What a run shows *)

Headers(ev) == SelectSeq(ev, LAMBDA e : e.type = "header")
Records(ev) == SelectSeq(ev, LAMBDA e : e.type = "data")
Ends(ev) == SelectSeq(ev, LAMBDA e : e.type = "end")
Errors(ev) == SelectSeq(ev, LAMBDA e : e.type = "error")

IsPrefix(a, b) == Len(a) <= Len(b) /\ \A i \in 1..Len(a) : a[i] = b[i]

\* the bytes written so far
Delivered == SubSeq(input, 1, delivered)

\* a fresh decoder with the same options, given the whole input as one chunk
OneChunk ==
  transform(constructor(offset, size, includeDeletedRecords, quirks), input)

\* the header was parsed and declares records of at least one byte, so the
\* i-th record taken from the input starts RecordStart(i) bytes into it
HeaderParsed == header # NoHeader
RecordStart(i) ==
  header.numberOfHeaderBytes + (i - 1) * header.numberOfBytesInRecord
Flag(i) == input[RecordStart(i) + 1]

\* the bytes of the header and of the records decoded so far
Consumed == RecordStart(totalRecordCount + 1)

\* all declared records were decoded and the chunk just written ended one
\* byte after them
OneByteRemains ==
  /\ HeaderParsed
  /\ ~finalCalled
  /\ header.numberOfBytesInRecord >= 0
  /\ totalRecordCount = header.numberOfRecords
  /\ delivered = Consumed + 1

----------------------------------------------------------------------------
(* C1 *)

\* the run is over: every byte of the input was written, or a chunk made
\* the decoder raise an error
RunIsOver ==
  \/ delivered = Len(input)
  \/ ~finalCalled /\ Errors(events) # <<>>

SameHeaderAndRecords ==
  /\ Headers(events) = Headers(OneChunk.events)
  /\ Records(events) = Records(OneChunk.events)

\* C1: chunking invariance.  When a run is over, the Header notifications
\* and the Records it emitted are those a fresh decoder emits when given the
\* whole input as one chunk.
C1_ChunkingInvariance == RunIsOver => SameHeaderAndRecords

\* the same, for the inputs whose declared record length is not negative
C1_NonNegativeLength ==
  (RunIsOver /\ readInt16LE(input, 10) >= 0) => SameHeaderAndRecords

----------------------------------------------------------------------------
(* C2 *)

\* the i-th record of a well-formed file, as its bytes spell it
PageRecord(i) ==
  (MetaKey :> [type |-> "meta", value |-> (input[65 + 2 * i - 1] = Asterisk)])
  @@ (<<102>> :> [type |-> "string", value |-> <<input[65 + 2 * i]>>])

\* the number of records of a well-formed file: a header of 65 bytes,
\* records of 2 bytes, the marker
PageCount == (Len(input) - 66) \div 2

\* E: the eligible records of the file, in input order
PageEligible ==
  SelectSeq([i \in 1..PageCount |-> PageRecord(i)],
            LAMBDA r : ~r[MetaKey].value \/ includeDeletedRecords)

\* E[offset .. min(n, offset+size))
PageWindow ==
  SubSeq(PageEligible, offset + 1,
         IF size = Infinity THEN Len(PageEligible)
         ELSE Min(Len(PageEligible), offset + size))

PushedRecords == [i \in 1..Len(Records(events)) |-> Records(events)[i].val]

----------------------------------------------------------------------------
(* C3 *)

\* the records decoded so far that the options make eligible
EligibleSoFar ==
  {i \in 1..totalRecordCount : Flag(i) # Asterisk \/ includeDeletedRecords}

\* C3: deletion accounting.  Every decoded record adds one to
\* totalRecordCount; a record flagged '*' adds to eligibleRecordCount and
\* to the output only when the deleted option is true: the eligibility
\* counter is the number of decoded records that are not deleted (all of
\* them when the option is true), and no more records than that were
\* emitted.
C3_DeletionAccounting ==
  (HeaderParsed /\ header.numberOfBytesInRecord >= 1) =>
    /\ eligibleRecordCount = Cardinality(EligibleSoFar)
    /\ Len(Records(events)) <= Cardinality(EligibleSoFar)

----------------------------------------------------------------------------
(* C4 *)

\* C4: with the deleted option false (and no offset, no size), the records
\* emitted are as many as the decoded records without the '*' flag, and
\* every emitted record carries '@meta' = {deleted: false}, whatever the
\* fields of the header are named.
C4_NoDeletedRecordEmitted ==
  (HeaderParsed /\ header.numberOfBytesInRecord >= 1
     /\ ~includeDeletedRecords /\ offset = 0 /\ size = Infinity) =>
    /\ Len(Records(events))
         = Cardinality({i \in 1..totalRecordCount : Flag(i) # Asterisk})
    /\ \A i \in 1..Len(Records(events)) :
         Records(events)[i].val[MetaKey] = [type |-> "meta", value |-> FALSE]

----------------------------------------------------------------------------
(* C5 *)

\* C5: when the input has ended and no error was raised, the declared
\* number of records was decoded and the end of stream was signalled after
\* the trailing end-of-file marker.
C5_EndsVerifiedOrWithError ==
  (finalCalled /\ Errors(events) = <<>>) =>
    /\ HeaderParsed
    /\ totalRecordCount = header.numberOfRecords
    /\ Len(Ends(events)) = 1

----------------------------------------------------------------------------
(* C6 *)

\* C6: when all declared records were decoded and the one byte that remains
\* is not 0x1A, the error 'Last byte of file is not end-of-file marker' is
\* raised and the end of stream is not signalled.
C6_WrongMarkerIsNoEnd ==
  (OneByteRemains /\ input[delivered] # EOFMarker) =>
    /\ Errors(events) =
         <<[type |-> "error",
            val |-> Err("Last byte of file is not end-of-file marker", <<>>)]>>
    /\ Ends(events) = <<>>

----------------------------------------------------------------------------
(* C7 *)

\* C7: when all declared records were decoded and the one byte that remains
\* is 0x1A, the byte is discarded with the held buffer, the end of stream is
\* signalled once and no error is raised.
C7_MarkerEndsStream ==
  (OneByteRemains /\ input[delivered] = EOFMarker) =>
    /\ unconsumedBytes = Deleted
    /\ Len(Ends(events)) = 1
    /\ events[Len(events)].type = "end"
    /\ Errors(events) = <<>>

\* a file that declares no record and no field ended by its marker
C7_Witness ==
  /\ OneByteRemains
  /\ input[delivered] = EOFMarker
  /\ header.numberOfRecords = 0
  /\ header.fields = <<>>
  /\ Len(Ends(events)) = 1

----------------------------------------------------------------------------
(* C8 *)

\* C8: when the input ends before the bytes of a header were written
\* (fewer than 32, or fewer than the header declares), the one event of the
\* run is the error 'Unable to parse first 32 bytes from header, found N
\* byte(s)', N the number of bytes held: no Header, no Record, no end.
C8_EndBeforeHeaderIsError ==
  (finalCalled /\ ~hasEnoughBytesForHeader(Delivered)) =>
    events =
      <<[type |-> "error",
         val |-> Err("Unable to parse first 32 bytes from header, found",
                     <<delivered>>)]>>

\* the input ended with the 32 fixed bytes written, not the declared 33
C8_Witness ==
  /\ finalCalled
  /\ delivered = 32
  /\ readUInt16LE(Delivered, 8) = 33
  /\ Len(events) = 1

----------------------------------------------------------------------------
(* C9 *)

\* the Header is notified at most once, it is the parsed header, and no
\* Record precedes it
HeaderFirst ==
  /\ Len(Headers(events)) <= 1
  /\ HeaderParsed => Headers(events) = <<[type |-> "header", val |-> header]>>
  /\ \A i \in 1..Len(events) :
       events[i].type = "data" => \E j \in 1..(i - 1) : events[j].type = "header"

\* C9: in every run the Header notification is emitted at most once and
\* before any Record, and the header, once parsed, never changes.
C9_HeaderOnceAndFirst ==
  /\ []HeaderFirst
  /\ [][HeaderParsed => header' = header]_vars

\* the whole input was written: one Header, then two Records
C9_Witness ==
  /\ delivered = Len(input)
  /\ Len(events) >= 3
  /\ events[1].type = "header"
  /\ events[2].type = "data"
  /\ events[3].type = "data"

----------------------------------------------------------------------------
(* C10 *)

\* a field descriptor, as 32 bytes, breaks a rule of the descriptors
BreaksFieldRule(d) ==
  \/ d[17] = 255
  \/ d[12] \notin {67, 68, 70, 76, 77, 78}
  \/ d[12] = 68 /\ d[17] # 8
  \/ d[12] = 76 /\ d[17] # 1
  \/ d[12] = 77 /\ d[17] # 10
  \/ d[32] > 1

\* the bytes written hold a whole header that breaks a structural rule
BreaksStructuralRule ==
  /\ delivered >= 32
  /\ delivered >= input[9] + 256 * input[10]
  /\ LET length == input[9] + 256 * input[10]
         Descriptor(i) == SubSeq(input, 32 * i + 1, 32 * i + 32)
         Name(i) == SelectSeq(SubSeq(Descriptor(i), 1, 10), LAMBDA c : c # 0)
     IN \/ input[1] \notin {3, 131, 245, 139, 142}
        \/ length % 32 # 1
        \/ length < 33
        \/ input[length] # 13
        \/ input[16] # 0
        \/ input[29] > 1
        \/ \E i \in 1..((length - 33) \div 32) : BreaksFieldRule(Descriptor(i))
        \/ \E i, j \in 1..((length - 33) \div 32) : i < j /\ Name(i) = Name(j)

----------------------------------------------------------------------------
(* C11 *)

\* C11: every error is terminal.  A run has at most one error event, and
\* nothing follows it: no Header, no Record, and no further step of the
\* decoder such as the end-of-stream signal.
C11_ErrorIsTerminal ==
  /\ Len(Errors(events)) <= 1
  /\ \A i \in 1..Len(events) : events[i].type = "error" => i = Len(events)

----------------------------------------------------------------------------
(* C12 *)

\* the header length bytes 8 and 9 of the input declare
DeclaredLength == input[9] + 256 * input[10]

\* C12: every accepted header has the length its bytes declare, that
\* length is 1 modulo 32 and is 32 + 32 * (number of fields) + 1; a header
\* that declares fewer than 33 bytes is never accepted.
C12_HeaderLength ==
  /\ HeaderParsed =>
       /\ header.numberOfHeaderBytes = DeclaredLength
       /\ header.numberOfHeaderBytes % 32 = 1
       /\ header.numberOfHeaderBytes = 32 + 32 * Len(header.fields) + 1
  /\ DeclaredLength < 33 => ~HeaderParsed

\* a header of 97 bytes was accepted with its two fields
C12_Witness ==
  /\ HeaderParsed
  /\ DeclaredLength = 97
  /\ Len(header.fields) = 2

----------------------------------------------------------------------------
(* The header rules, read off the bytes of the input *)

\* the bytes of a whole header were written
HeaderDelivered == delivered >= 32 /\ delivered >= DeclaredLength

\* the first error raised is err
Raised(err) == Errors(events) # <<>> /\ Errors(events)[1].val = err

VersionBad == input[1] \notin {3, 131, 245, 139, 142}
LengthBad == DeclaredLength % 32 # 1
TerminatorBad == DeclaredLength >= 33 /\ input[DeclaredLength] # 13
EncryptionBad ==
  input[16] = 1 \/ (input[16] > 1 /\ ~quirks.ignoreUnknownEncryptionByte)
MdxBad == input[29] > 1

\* the header breaks no rule of its fixed part
FixedPartOk ==
  /\ ~VersionBad /\ ~LengthBad /\ DeclaredLength >= 33
  /\ ~TerminatorBad /\ ~EncryptionBad /\ ~MdxBad

\* the descriptors the header declares, the i-th as 32 bytes
FieldCount == (DeclaredLength - 33) \div 32
Descriptor(i) == SubSeq(input, 32 * i + 1, 32 * i + 32)
DescriptorName(d) == SelectSeq(SubSeq(d, 1, 10), LAMBDA c : c # 0)

\* the descriptor breaks a rule of the descriptors
DescriptorBad(d) ==
  \/ d[17] = 255 /\ ~quirks.allowFieldLength255
  \/ d[12] \notin {67, 68, 70, 76, 77, 78}
  \/ d[12] = 68 /\ d[17] # 8
  \/ d[12] = 76 /\ d[17] # 1
  \/ d[12] = 77 /\ d[17] # 10
  \/ d[32] > 1

\* the field an accepted descriptor stands for
DescribedField(d) ==
  [name |-> DescriptorName(d),
   type |-> CASE d[12] = 67 -> "C" [] d[12] = 68 -> "D" [] d[12] = 70 -> "F"
              [] d[12] = 76 -> "L" [] d[12] = 77 -> "M" [] d[12] = 78 -> "N",
   length |-> d[17],
   precision |-> d[18],
   workAreaId |-> d[19] + 256 * d[20],
   isIndexedInMDXFile |-> (d[32] = 1)]

SomeDescriptorBad == \E i \in 1..FieldCount : DescriptorBad(Descriptor(i))

\* the descriptors whose name repeats the name of an earlier one
Repeats ==
  {j \in 1..FieldCount :
     \E i \in 1..(j - 1) :
       DescriptorName(Descriptor(i)) = DescriptorName(Descriptor(j))}

----------------------------------------------------------------------------
(* C13 *)

----------------------------------------------------------------------------
(* C14 *)

\* C14: for a header whose version, length and last byte are right, an
\* encryption byte of 1 is rejected with 'Encryption flag is set, cannot
\* process' whatever the quirks; a byte above 1 is rejected with 'Invalid
\* encryption flag value' unless ignoreUnknownEncryptionByte is set; a byte
\* of 0, and a byte above 1 under that quirk, pass the check: the header is
\* accepted when it breaks no other rule.
C14_EncryptionFlag ==
  (HeaderDelivered /\ ~VersionBad /\ ~LengthBad /\ DeclaredLength >= 33
     /\ ~TerminatorBad) =>
    /\ input[16] = 1 =>
         /\ ~HeaderParsed
         /\ Raised(Err("Encryption flag is set, cannot process", <<>>))
    /\ (input[16] > 1 /\ ~quirks.ignoreUnknownEncryptionByte) =>
         /\ ~HeaderParsed
         /\ Raised(Err("Invalid encryption flag value", <<input[16]>>))
    /\ ((input[16] = 0 \/ (input[16] > 1 /\ quirks.ignoreUnknownEncryptionByte))
          /\ ~MdxBad /\ ~SomeDescriptorBad /\ Repeats = {}) =>
         HeaderParsed /\ Errors(events) = <<>>

\* a header with an encryption byte of 2 was accepted under the quirk
C14_Witness ==
  /\ HeaderParsed
  /\ input[16] = 2
  /\ quirks.ignoreUnknownEncryptionByte
  /\ Headers(events) # <<>>

----------------------------------------------------------------------------
(* C15 *)

\* C15: for a header whose fixed part is right, a descriptor with length
\* 255 (unless allowFieldLength255 is set), with a type other than C, D, F,
\* L, M, N, of type D and length other than 8, L and other than 1, M and
\* other than 10, or with an indexed byte above 1 rejects the header; when
\* no descriptor does and no name repeats the header is accepted, and the
\* fields of an accepted header are what the descriptors spell: name
\* without NULs, type, length, precision, work area id and indexed flag.
C15_DescriptorRules ==
  (HeaderDelivered /\ FixedPartOk) =>
    /\ SomeDescriptorBad => ~HeaderParsed /\ Errors(events) # <<>>
    /\ (~SomeDescriptorBad /\ Repeats = {}) => HeaderParsed
    /\ HeaderParsed =>
         header.fields = [i \in 1..FieldCount |-> DescribedField(Descriptor(i))]

\* a C field of length 255, named with a NUL inside, was accepted under the
\* quirk
C15_Witness ==
  /\ HeaderParsed
  /\ quirks.allowFieldLength255
  /\ Len(header.fields) = 1
  /\ header.fields[1].length = 255
  /\ header.fields[1].name = <<102, 103>>
  /\ header.fields[1].workAreaId = 258

----------------------------------------------------------------------------
(* C16 *)

\* C16: for a header whose fixed part is right: when every descriptor is
\* valid and a name repeats, the header is rejected with 'Duplicate field
\* name' and the first name that repeats; when a descriptor is invalid the
\* error is that descriptor's, not the duplicate's; and the names of an
\* accepted header are pairwise distinct.
C16_DuplicateNames ==
  (HeaderDelivered /\ FixedPartOk) =>
    /\ (~SomeDescriptorBad /\ Repeats # {}) =>
         /\ ~HeaderParsed
         /\ Raised(Err("Duplicate field name",
              DescriptorName(Descriptor(
                CHOOSE j \in Repeats : \A k \in Repeats : j <= k))))
    /\ SomeDescriptorBad =>
         /\ Errors(events) # <<>>
         /\ Errors(events)[1].val.msg # "Duplicate field name"
    /\ HeaderParsed =>
         \A i, j \in 1..Len(header.fields) :
           header.fields[i].name = header.fields[j].name => i = j

\* a header was rejected for its third field, named as its second
C16_Witness ==
  /\ HeaderDelivered
  /\ FieldCount = 3
  /\ Repeats = {3}
  /\ Raised(Err("Duplicate field name", <<103>>))

----------------------------------------------------------------------------
(* C17 *)

\* an option value the constructor takes: none, or a non-negative integer;
\* none, or true or false; none, or the name of a known encoding
NumberOptionValid(value) ==
  value.type = "undefined" \/ (value.type = "integer" /\ value.num >= 0)
DeletedOptionValid(value) == value.type \in {"undefined", "boolean"}
EncodingOptionValid(value) ==
  value.type = "undefined"
    \/ (value.type = "string" /\ value.str \in {"utf-8", "latin1"})

OptionsValid ==
  /\ NumberOptionValid(options.offset)
  /\ NumberOptionValid(options.size)
  /\ DeletedOptionValid(options.deleted)
  /\ EncodingOptionValid(options.encoding)

----------------------------------------------------------------------------
(* C18 *)

\* the whole of a file of 2 records, the first deleted and the second not,
\* was written to a decoder made with offset 1 and size 1
ReadmeExample ==
  /\ PageCount = 2
  /\ input[66] = Asterisk
  /\ input[68] = Space
  /\ offset = 1
  /\ size = 1
  /\ delivered = Len(input)

----------------------------------------------------------------------------
(* C19 *)

\* the record a decoded record with this flag byte is: without fields, only
\* its '@meta'
FlaggedRecord(flag) == MetaKey :> [type |-> "meta", value |-> flag = Asterisk]

\* the records decoded so far that the deleted option lets out, in order
FlaggedEligible ==
  SelectSeq([i \in 1..totalRecordCount |-> FlaggedRecord(Flag(i))],
            LAMBDA r : ~r[MetaKey].value \/ includeDeletedRecords)

\* the next record to decode was written whole
NextRecordWritten ==
  /\ totalRecordCount < header.numberOfRecords
  /\ delivered >= RecordStart(totalRecordCount + 2)

\* C19: byte 0 of every record is the deletion flag.  Every decoded record
\* has the flag 0x20 or 0x2A, and the emitted records carry deleted = false
\* for 0x20 and deleted = true for 0x2A; a record with any other first byte
\* raises 'Invalid deleted record value', is never counted as decoded, and
\* neither it nor any record after it is emitted.
C19_DeletionFlag ==
  (HeaderParsed /\ header.numberOfBytesInRecord >= 1) =>
    /\ \A i \in 1..totalRecordCount : Flag(i) \in {Space, Asterisk}
    /\ [k \in 1..Len(Records(events)) |-> Records(events)[k].val]
         = FlaggedEligible
    /\ (NextRecordWritten /\ Flag(totalRecordCount + 1) \notin {Space, Asterisk})
         => /\ Errors(events) # <<>>
            /\ \A k \in 1..Len(Errors(events)) :
                 Errors(events)[k].val
                   = Err("Invalid deleted record value",
                         <<Flag(totalRecordCount + 1)>>)
            /\ Ends(events) = <<>>

\* a deleted record was decoded and emitted, then the second record began
\* with 0x1A: the error was raised and one record only was emitted
C19_Witness ==
  /\ HeaderParsed
  /\ header.numberOfBytesInRecord = 1
  /\ header.numberOfRecords = 2
  /\ includeDeletedRecords
  /\ totalRecordCount = 1
  /\ delivered >= RecordStart(3)
  /\ Flag(1) = Asterisk
  /\ Flag(2) = EOFMarker
  /\ Len(Records(events)) = 1
  /\ Records(events)[1].val[MetaKey].value = TRUE
  /\ Raised(Err("Invalid deleted record value", <<EOFMarker>>))

----------------------------------------------------------------------------
(* C20 *)

\* the Logical value of the i-th record of the file
LogicalByte(i) == input[RecordStart(i) + 2]

\* a character that is neither true, false, '?' nor a space
UnknownLogical(v) ==
  v \notin {89, 121, 84, 116, 78, 110, 70, 102, 63, Space}

\* what a Logical character decodes to
LogicalValue(v) ==
  IF v \in {89, 121, 84, 116} THEN [type |-> "boolean", value |-> TRUE]
  ELSE IF v \in {78, 110, 70, 102} THEN [type |-> "boolean", value |-> FALSE]
  ELSE [type |-> "undefined", value |-> <<>>]

\* the values of field 'f' in the records decoded so far that the deleted
\* option lets out
LogicalEligible ==
  SelectSeq([i \in 1..totalRecordCount |->
               [deleted |-> Flag(i) = Asterisk,
                f |-> LogicalValue(LogicalByte(i))]],
            LAMBDA r : ~r.deleted \/ includeDeletedRecords)

\* the errors raised over a Logical value
LogicalErrors ==
  SelectSeq(Errors(events), LAMBDA e : e.val.msg = "Invalid L-type field value")

\* C20: a Logical field decodes Y, y, T, t to true and N, n, F, f to false;
\* '?' and a space never raise an error; any other character raises
\* 'Invalid L-type field value' and its record is not decoded, unless the
\* typeL_allowUnknownValues quirk is set: then no Logical value raises an
\* error and an unrecognised value decodes like '?', to no value.
C20_LogicalField ==
  HeaderParsed =>
    /\ \A i \in 1..totalRecordCount :
         UnknownLogical(LogicalByte(i)) => quirks.typeL_allowUnknownValues
    /\ [k \in 1..Len(PushedRecords) |->
          [deleted |-> PushedRecords[k][MetaKey].value,
           f |-> PushedRecords[k][<<102>>]]]
         = LogicalEligible
    /\ \A k \in 1..Len(LogicalErrors) :
         /\ ~quirks.typeL_allowUnknownValues
         /\ NextRecordWritten
         /\ LogicalErrors[k].val.arg = <<LogicalByte(totalRecordCount + 1)>>
         /\ UnknownLogical(LogicalByte(totalRecordCount + 1))
    /\ (/\ NextRecordWritten
        /\ UnknownLogical(LogicalByte(totalRecordCount + 1))
        /\ ~quirks.typeL_allowUnknownValues)
         => LogicalErrors # <<>> /\ Ends(events) = <<>>

\* without the quirk, a record with '?' was emitted without a value and the
\* next record, with 'X', raised the error
C20_Witness ==
  /\ HeaderParsed
  /\ header.numberOfRecords = 2
  /\ ~quirks.typeL_allowUnknownValues
  /\ totalRecordCount = 1
  /\ LogicalByte(1) = 63
  /\ LogicalByte(2) = 88
  /\ Len(PushedRecords) = 1
  /\ PushedRecords[1][<<102>>].type = "undefined"
  /\ Raised(Err("Invalid L-type field value", <<88>>))

\* with the quirk, a record with 'X' was emitted without a value, the next
\* record decoded to true, and the stream ended without error
C20_WitnessQuirk ==
  /\ HeaderParsed
  /\ header.numberOfRecords = 2
  /\ quirks.typeL_allowUnknownValues
  /\ totalRecordCount = 2
  /\ LogicalByte(1) = 88
  /\ LogicalByte(2) = 84
  /\ Len(PushedRecords) = 2
  /\ PushedRecords[1][<<102>>].type = "undefined"
  /\ PushedRecords[2][<<102>>] = [type |-> "boolean", value |-> TRUE]
  /\ Errors(events) = <<>>
  /\ Ends(events) # <<>>

----------------------------------------------------------------------------
(* C21 *)

\* the Logical characters of the records decoded so far that the deleted
\* option lets out, in order: the k-th is the character of the k-th emitted
\* record
EligibleLogicalBytes ==
  SelectSeq([i \in 1..totalRecordCount |->
               [deleted |-> Flag(i) = Asterisk, byte |-> LogicalByte(i)]],
            LAMBDA r : ~r.deleted \/ includeDeletedRecords)

\* C21: when the value of a Logical field is '?' or a single space, the
\* emitted record has no key for that field: the field's name is not in the
\* record's key set.
C21_AbsentKeyOmitted ==
  HeaderParsed =>
    \A k \in 1..Len(PushedRecords) :
      EligibleLogicalBytes[k].byte \in {63, Space}
        => <<102>> \notin DOMAIN PushedRecords[k]

----------------------------------------------------------------------------
(* C22 *)

\* the text of the Memo field of the one record of the file
MemoText == SubSeq(input, RecordStart(1) + 2, RecordStart(1) + 11)

\* exactly 10 digits or exactly 10 spaces; with the quirk, also k spaces
\* followed by 10 - k digits
MemoAccepted ==
  \/ \A i \in 1..10 : MemoText[i] \in 48..57
  \/ \A i \in 1..10 : MemoText[i] = Space
  \/ /\ quirks.typeM_allowLeftSpacePadding
     /\ \E k \in 0..10 :
          /\ \A i \in 1..k : MemoText[i] = Space
          /\ \A i \in (k + 1)..10 : MemoText[i] \in 48..57

\* the errors raised over a Memo value
MemoErrors ==
  SelectSeq(Errors(events), LAMBDA e : e.val.msg = "Invalid M-type field value")

\* C22: a Memo value is accepted, and returned unchanged as its text of 10
\* characters, iff it is 10 digits or 10 spaces, or, with the
\* typeM_allowLeftSpacePadding quirk, k spaces followed by 10 - k digits;
\* every other value raises an error that quotes the value, with or without
\* the quirk, and its record is not emitted.
C22_MemoField ==
  HeaderParsed =>
    /\ totalRecordCount = 1 =>
         /\ MemoAccepted
         /\ Len(PushedRecords) = 1
         /\ PushedRecords[1][<<102>>] = [type |-> "string", value |-> MemoText]
         /\ MemoErrors = <<>>
    /\ (totalRecordCount = 0 /\ delivered >= RecordStart(2)) =>
         /\ ~MemoAccepted
         /\ PushedRecords = <<>>
         /\ MemoErrors # <<>>
         /\ \A k \in 1..Len(MemoErrors) :
              MemoErrors[k].val = Err("Invalid M-type field value", MemoText)
    /\ delivered < RecordStart(2) => MemoErrors = <<>>

\* with the quirk, '     4    ' raised the error that quotes it
C22_Witness ==
  /\ HeaderParsed
  /\ quirks.typeM_allowLeftSpacePadding
  /\ delivered = Len(input)
  /\ MemoText = <<Space, Space, Space, Space, Space, 52, Space, Space, Space, Space>>
  /\ totalRecordCount = 0
  /\ Raised(Err("Invalid M-type field value", MemoText))

\* with the quirk, '      4444' was returned as it is, and without the
\* quirk it raised the error
C22_WitnessPadded ==
  /\ HeaderParsed
  /\ delivered = Len(input)
  /\ MemoText = <<Space, Space, Space, Space, Space, Space, 52, 52, 52, 52>>
  /\ IF quirks.typeM_allowLeftSpacePadding
       THEN Len(PushedRecords) = 1 /\ PushedRecords[1][<<102>>].value = MemoText
       ELSE Raised(Err("Invalid M-type field value", MemoText))

----------------------------------------------------------------------------
(* C23 *)

\* the text of the Date field of the one record of the file
DateText == SubSeq(input, RecordStart(1) + 2, RecordStart(1) + 9)

\* the text is YYYYMMDD, a year of four digits from 0100 on
IsYYYYMMDD ==
  /\ \A i \in 1..8 : DateText[i] \in 48..57
  /\ DateText[1] # 48 \/ DateText[2] # 48

\* the number two and four digits spell
TwoDigits(a, b) == (a - 48) * 10 + (b - 48)
FourDigits(a, b, c, d) == TwoDigits(a, b) * 100 + TwoDigits(c, d)

----------------------------------------------------------------------------
(* C24 *)

\* a name an override function is configured for
Overridden(name) == name \in DOMAIN customFieldParsers

\* the bytes of the i-th field of the one record: the fields are one byte long
FieldByte(i) == input[RecordStart(1) + 1 + i]

\* the i-th field raises an error: its override does, or, without an
\* override, the built-in decoder of an L field given an unknown character
FieldFails(i) ==
  IF Overridden(header.fields[i].name)
    THEN customFieldParsers[header.fields[i].name] = "throws"
    ELSE header.fields[i].type = "L" /\ UnknownLogical(FieldByte(i))

\* the value of the i-th field: what the override returns for the bytes and
\* the descriptor, or what the built-in decoder of the type does
FieldResult(i) ==
  IF Overridden(header.fields[i].name)
    THEN [type |-> "custom", bytes |-> <<FieldByte(i)>>, field |-> header.fields[i]]
  ELSE IF header.fields[i].type = "L" THEN LogicalValue(FieldByte(i))
  ELSE [type |-> "string",
        value |-> IF FieldByte(i) = Space THEN <<>> ELSE <<FieldByte(i)>>]

\* the record was written whole
RecordWritten == delivered >= RecordStart(2)

\* what C24 says of the one record of the file
OverridesDecide ==
  (HeaderParsed /\ RecordWritten) =>
    IF \E i \in 1..2 : FieldFails(i)
      THEN /\ totalRecordCount = 0
           /\ PushedRecords = <<>>
           /\ Errors(events) # <<>>
      ELSE /\ totalRecordCount = 1
           /\ Len(PushedRecords) = 1
           /\ \A i \in 1..2 :
                PushedRecords[1][header.fields[i].name] = FieldResult(i)
           /\ LogicalErrors = <<>>

\* C24: when an override function is configured for a field's name, the
\* record's value for that field is the override's result on the field's
\* bytes and descriptor and the built-in decoder is bypassed, so that no
\* built-in error is raised for the field; a field without an override is
\* decoded by the built-in decoder of its type.
C24_OverridesDecide == OverridesDecide

\* the same for files whose fields are not named as a property of
\* Object.prototype
C24_PlainNames ==
  (HeaderParsed /\ header.fields[1].name = <<102>>) => OverridesDecide

----------------------------------------------------------------------------
(* C25 *)

\* how a run ended: whether the end of stream was signalled, and the first
\* error raised
Outcome(ev) ==
  [ended |-> Ends(ev) # <<>>,
   error |-> IF Errors(ev) = <<>> THEN <<>> ELSE <<Errors(ev)[1]>>]

\* what a decoder shows: its Header, its Records, how it ended
Shown(ev) == <<Headers(ev), Records(ev), Outcome(ev)>>

\* the first instance run alone: a fresh decoder with its options, given the
\* whole of its input and then, if its source ended, the end
FirstAlone(ended) ==
  LET alone == transform(constructor(offset, size, includeDeletedRecords, quirks),
                         input)
  IN IF ended THEN final(alone) ELSE alone

\* the second instance run alone
OtherAlone(ended) ==
  LET alone == transform(constructor(other.this.offset, other.this.size,
                                     other.this.includeDeletedRecords,
                                     other.this.quirks),
                         other.input)
  IN IF ended THEN final(alone) ELSE alone

\* once all its input was written, each instance shows what it shows when
\* it runs alone, wherever the other instance is
SameAsAlone ==
  /\ delivered = Len(input) => Shown(events) = Shown(FirstAlone(finalCalled).events)
  /\ other.delivered = Len(other.input) =>
       Shown(other.this.events) = Shown(OtherAlone(other.finalCalled).events)

\* a step of one instance leaves the buffer, the header and the counters of
\* the other as they are
NoInterference ==
  /\ other' # other => UNCHANGED first
  /\ first' # first => UNCHANGED other

\* C25: decoder instances are independent.  For two instances fed
\* independent inputs, every interleaving of their chunks gives each
\* instance the Header, the Records and the outcome it has when it runs
\* alone, and no step of one instance changes the buffer, the header or the
\* counters of the other.
C25_Independent == []SameAsAlone /\ [][NoInterference]_vars

\* both instances are through: the first emitted a record and raised an
\* error, the second emitted a record and ended without error
C25_Witness ==
  /\ finalCalled
  /\ other.finalCalled
  /\ delivered = Len(input)
  /\ other.delivered = Len(other.input)
  /\ Errors(events) # <<>>
  /\ Len(Records(events)) = 1
  /\ Len(Records(other.this.events)) = 1
  /\ Errors(other.this.events) = <<>>
  /\ Ends(other.this.events) # <<>>

----------------------------------------------------------------------------
(* C26 *)

\* between chunks, a header parsed, records of at least one byte, nothing
\* raised and nothing ended yet
Suspended ==
  /\ HeaderParsed
  /\ header.numberOfBytesInRecord >= 1
  /\ Errors(events) = <<>>
  /\ Ends(events) = <<>>
  /\ unconsumedBytes # Deleted

\* C26: at every suspension point between chunks the decoder holds less
\* than one record of unconsumed bytes: fewer than numberOfBytesInRecord
\* bytes are left over, whatever the input.
C26_HoldsLessThanARecord ==
  Suspended => Len(unconsumedBytes) < header.numberOfBytesInRecord

\* the same while records are still expected
C26_WhileRecordsExpected ==
  (Suspended /\ totalRecordCount < header.numberOfRecords)
    => Len(unconsumedBytes) < header.numberOfBytesInRecord

----------------------------------------------------------------------------
(* C27 *)

\* a chunk was written to a decoder that has, or now gets, its header, and
\* the buffer is still held afterwards
ChunkDecoded ==
  /\ delivered' > delivered
  /\ HeaderParsed'
  /\ unconsumedBytes # Deleted
  /\ unconsumedBytes' # Deleted

\* the bytes the record loop found in the buffer: those held before, the
\* chunk, less the header when this chunk completed it
HeldAtLoop ==
  Len(unconsumedBytes) + (delivered' - delivered)
    - (IF HeaderParsed THEN 0 ELSE header'.numberOfHeaderBytes)

\* the iterations of the record loop that ran to their end
Iterations == totalRecordCount' - totalRecordCount

\* every iteration took numberOfBytesInRecord bytes from the buffer, ran
\* with that many bytes held, and with fewer records consumed than declared
LoopTakesRecords ==
  /\ Len(unconsumedBytes')
       = HeldAtLoop - Iterations * header'.numberOfBytesInRecord
  /\ Iterations >= 0
  /\ Iterations > 0 => totalRecordCount' <= header'.numberOfRecords

\* C27: for every accepted header, each iteration of the record loop
\* removes exactly numberOfBytesInRecord bytes from the front of the held
\* buffer, and runs only when that many bytes are held and fewer records
\* than declared were consumed, also when the record length of the header,
\* read as a signed 16-bit integer, is zero or negative.
C27_LoopTakesRecords == [][ChunkDecoded => LoopTakesRecords]_vars

\* the same, for the headers whose record length is not negative
C27_NonNegativeLength ==
  [][(ChunkDecoded /\ header'.numberOfBytesInRecord >= 0) => LoopTakesRecords]_vars

----------------------------------------------------------------------------
(* C28 *)

\* C28: liveness.  For every well-formed complete input (a valid header,
\* the declared number of valid records, one byte 0x1A) written in any
\* chunking and followed by the end of input, the decoder eventually signals
\* the end of stream, exactly once, and never raises an error.
C28_EventuallyEnds ==
  /\ [](Errors(events) = <<>> /\ Len(Ends(events)) <= 1)
  /\ <>(finalCalled /\ Len(Ends(events)) = 1)

\* the whole input was written and ended; the end of stream was signalled
\* once, after the records, and the last handler called back
C28_Witness ==
  /\ finalCalled
  /\ delivered = Len(input)
  /\ callbacks = 1
  /\ header.numberOfRecords = MaxRecords
  /\ totalRecordCount = MaxRecords
  /\ Errors(events) = <<>>
  /\ Len(Ends(events)) = 1
  /\ events[Len(events)].type = "end"

----------------------------------------------------------------------------
(* C29 *)

\* C29: in every state after a header with a declared record count of 0 or
\* more was accepted, 0 <= eligibleRecordCount <= totalRecordCount <=
\* numberOfRecords, the records emitted are at most min(eligibleRecordCount,
\* size), and no record is decoded beyond the declared count, even when more
\* data of a record's size is held.
C29_CountersBounded ==
  (HeaderParsed /\ header.numberOfRecords >= 0) =>
    /\ 0 <= eligibleRecordCount
    /\ eligibleRecordCount <= totalRecordCount
    /\ totalRecordCount <= header.numberOfRecords
    /\ Len(Records(events)) <= eligibleRecordCount
    /\ size # Infinity => Len(Records(events)) <= size

\* one record was declared and decoded, and two more bytes, each of a
\* record's size, are held undecoded
C29_Witness ==
  /\ HeaderParsed
  /\ header.numberOfRecords = 1
  /\ totalRecordCount = 1
  /\ eligibleRecordCount = 1
  /\ size = 1
  /\ Len(Records(events)) = 1
  /\ unconsumedBytes = <<Space, Space>>

----------------------------------------------------------------------------
(* C30 *)

\* the last n of the bytes written so far
DeliveredSuffix(n) == SubSeq(input, delivered - n + 1, delivered)

\* C30: byte conservation.  Before the header is parsed the held buffer is
\* the concatenation of all the bytes written; after it is parsed, with
\* records of at least one byte, and until the end of stream or an error,
\* the bytes written are as many as numberOfHeaderBytes + totalRecordCount *
\* numberOfBytesInRecord + the length of the held buffer, and the held
\* buffer is the end of the bytes written.
C30_ByteConservation ==
  /\ ~HeaderParsed => unconsumedBytes = Delivered
  /\ (/\ HeaderParsed
      /\ header.numberOfBytesInRecord >= 1
      /\ Errors(events) = <<>>
      /\ Ends(events) = <<>>) =>
       /\ unconsumedBytes # Deleted
       /\ delivered = header.numberOfHeaderBytes
                        + totalRecordCount * header.numberOfBytesInRecord
                        + Len(unconsumedBytes)
       /\ unconsumedBytes = DeliveredSuffix(Len(unconsumedBytes))

\* one record of two bytes was consumed after the header and one byte of
\* the next is held
C30_Witness ==
  /\ HeaderParsed
  /\ header.numberOfBytesInRecord = 2
  /\ header.numberOfRecords = 2
  /\ totalRecordCount = 1
  /\ Errors(events) = <<>>
  /\ delivered = 36
  /\ unconsumedBytes = <<input[36]>>

----------------------------------------------------------------------------
(* C31 *)

\* the type of the one field of the file, as its descriptor spells it
FieldCode == input[44]

\* the bytes of the field of the i-th record of the file
FieldText(i) == SubSeq(input, RecordStart(i) + 2, RecordStart(i + 1))

\* a Logical value that is none of the known characters, a Memo value that
\* is neither ten digits nor ten spaces
ValueFails(text) ==
  IF FieldCode = 76 THEN UnknownLogical(text[1])
  ELSE ~ \/ \A i \in 1..Len(text) : text[i] \in 48..57
         \/ \A i \in 1..Len(text) : text[i] = Space

\* decoding the i-th record of the file fails
RecordFails(i) ==
  Flag(i) \notin {Space, Asterisk} \/ ValueFails(FieldText(i))

\* what the i-th record of the file decodes to
DecodedRecord(i) ==
  (MetaKey :> [type |-> "meta", value |-> Flag(i) = Asterisk])
  @@ (<<102>> :> IF FieldCode = 76 THEN LogicalValue(FieldText(i)[1])
                 ELSE [type |-> "string", value |-> FieldText(i)])

\* the records before the k-th that the deleted option lets out, in order
EligibleBefore(k) ==
  SelectSeq([i \in 1..(k - 1) |-> DecodedRecord(i)],
            LAMBDA r : ~r[MetaKey].value \/ includeDeletedRecords)

\* the part of a sequence of eligible records that falls in the page
WindowOf(eligible) ==
  SubSeq(eligible, offset + 1,
         IF size = Infinity THEN Len(eligible)
         ELSE Min(Len(eligible), offset + size))

\* the errors raised over a record
RecordErrors ==
  SelectSeq(Errors(events),
            LAMBDA e : e.val.msg \in {"Invalid deleted record value",
                                      "Invalid L-type field value",
                                      "Invalid M-type field value"})

\* C31: when decoding a record fails (invalid deletion flag, Logical or
\* Memo value) that record is not emitted, not even in part, and
\* totalRecordCount, eligibleRecordCount and the held buffer are as they
\* were before the failing iteration: the counters count the records before
\* the failing one, the buffer begins with the failing record, and the
\* records emitted are those of the page among the records before it.
C31_FailureChangesNothing ==
  (HeaderParsed /\ RecordErrors # <<>>) =>
    /\ totalRecordCount < header.numberOfRecords
    /\ delivered >= RecordStart(totalRecordCount + 2)
    /\ RecordFails(totalRecordCount + 1)
    /\ \A i \in 1..totalRecordCount : ~RecordFails(i)
    /\ unconsumedBytes
         = SubSeq(input, RecordStart(totalRecordCount + 1) + 1, delivered)
    /\ eligibleRecordCount = Len(EligibleBefore(totalRecordCount + 1))
    /\ PushedRecords = WindowOf(EligibleBefore(totalRecordCount + 1))

\* the first record, with ten digits in its Memo field, was emitted; the
\* second, with a letter in it, raised the error and is still held, with
\* the byte that follows it
C31_Witness ==
  /\ HeaderParsed
  /\ FieldCode = 77
  /\ delivered = Len(input)
  /\ totalRecordCount = 1
  /\ eligibleRecordCount = 1
  /\ Len(PushedRecords) = 1
  /\ PushedRecords[1][<<102>>].value = [i \in 1..10 |-> 52]
  /\ FieldText(2)[10] = 120
  /\ RecordErrors # <<>>
  /\ events[Len(events)].type = "error"
  /\ Len(unconsumedBytes) = 12

----------------------------------------------------------------------------
(* C32 *)

\* the records of the file written whole so far, the declared count at most
WrittenRecords ==
  Min(header.numberOfRecords,
      (delivered - header.numberOfHeaderBytes) \div header.numberOfBytesInRecord)

\* the written records whose decoding fails
FailingWritten == {i \in 1..WrittenRecords : RecordFails(i)}

\* the error decoding the i-th record of the file raises
ErrorOf(i) ==
  IF Flag(i) \notin {Space, Asterisk}
    THEN Err("Invalid deleted record value", <<Flag(i)>>)
  ELSE IF FieldCode = 76
    THEN Err("Invalid L-type field value", FieldText(i))
  ELSE Err("Invalid M-type field value", FieldText(i))

\* C32: every record up to the declared count is decoded and validated in
\* full, emitted or not.  The first written record that fails, be it
\* deleted (with deleted records excluded) or outside the page, aborts the
\* stream with its error; when none fails, every written record is consumed
\* and counted, also once the page is exhausted.
C32_EveryRecordDecoded ==
  HeaderParsed =>
    /\ FailingWritten = {} =>
         /\ totalRecordCount = WrittenRecords
         /\ Errors(events) = <<>>
    /\ \A k \in FailingWritten :
         (\A i \in FailingWritten : k <= i) =>
           /\ totalRecordCount = k - 1
           /\ Errors(events) # <<>>
           /\ \A e \in 1..Len(Errors(events)) :
                Errors(events)[e].val = ErrorOf(k)
           /\ Ends(events) = <<>>

\* with an offset of 1 the first record, outside the page, was consumed and
\* counted without being emitted; the second, deleted while deleted records
\* are excluded, raised the error over its value
C32_Witness ==
  /\ HeaderParsed
  /\ offset = 1
  /\ ~includeDeletedRecords
  /\ delivered = Len(input)
  /\ Flag(1) = Space
  /\ Flag(2) = Asterisk
  /\ ValueFails(FieldText(2))
  /\ totalRecordCount = 1
  /\ eligibleRecordCount = 1
  /\ PushedRecords = <<>>
  /\ Errors(events) # <<>>
  /\ Errors(events)[1].val = ErrorOf(2)

\* with a size of 1 the page was exhausted by the first record; the second,
\* eligible and valid, was consumed and counted and not emitted
C32_WitnessPageExhausted ==
  /\ HeaderParsed
  /\ offset = 0
  /\ size = 1
  /\ delivered = Len(input)
  /\ totalRecordCount = 2
  /\ eligibleRecordCount = 2
  /\ Len(PushedRecords) = 1
  /\ Errors(events) = <<>>
  /\ Ends(events) # <<>>

----------------------------------------------------------------------------
(* C33 *)

\* how a run came out: the end of stream, the first error, an exception
\* that escaped a handler
TerminalOutcome(this) ==
  [ended |-> Ends(this.events) # <<>>,
   error |-> IF Errors(this.events) = <<>> THEN <<>>
             ELSE <<Errors(this.events)[1].val>>,
   uncaught |-> this.uncaught]

\* every byte of the input was written, or a handler threw on the way
WrittenOut == ~finalCalled /\ (delivered = Len(input) \/ uncaught)

\* the bytes of the input after the header and the declared records
BytesAfterRecords ==
  Len(input) - header.numberOfHeaderBytes
    - header.numberOfRecords * header.numberOfBytesInRecord

\* C33: the terminal outcome of a run (normal end of stream, a specific
\* error, or neither) is the same for every chunking of the same byte
\* sequence, also for inputs with more than one byte after the declared
\* number of records: it is the outcome of a fresh decoder given the whole
\* input as one chunk.
C33_OutcomeOfAnyChunking ==
  WrittenOut => TerminalOutcome(This) = TerminalOutcome(OneChunk)

\* the same, for the inputs whose declared record length is not negative
C33_NonNegativeLength ==
  (WrittenOut /\ readInt16LE(input, 10) >= 0)
    => TerminalOutcome(This) = TerminalOutcome(OneChunk)

\* the same, for the inputs with records of at least one byte and at most
\* one byte after the declared number of records
C33_AtMostOneByteAfter ==
  (/\ WrittenOut
   /\ HeaderParsed
   /\ header.numberOfBytesInRecord >= 1
   /\ BytesAfterRecords <= 1)
    => TerminalOutcome(This) = TerminalOutcome(OneChunk)

----------------------------------------------------------------------------
(* C34 *)

\* a chunk is written to a decoder that has signalled the end of stream
ChunkAfterEnd == Ends(events) # <<>> /\ delivered' > delivered

\* C34: after the decoder has signalled the end of stream and dropped its
\* held buffer, a further chunk emits no Record, no Header and no second
\* end signal, and no exception escapes the handler while it appends the
\* chunk to the dropped buffer.
C34_ChunkAfterEndIsIgnored ==
  [][ChunkAfterEnd => (events' = events /\ ~uncaught')]_vars

\* the same without the exception: a chunk after the end of stream adds
\* nothing to what was emitted
C34_NothingEmittedAfterEnd == [][ChunkAfterEnd => events' = events]_vars

----------------------------------------------------------------------------
(* C35 *)

\* a chunk is written to the decoder
ChunkWritten == delivered' > delivered

\* C35: every chunk written is acknowledged exactly once: each call of
\* _transform calls its callback exactly once, on every path.
C35_CallbackOncePerChunk == [][ChunkWritten => callbacks' = 1]_vars

\* the same, for the chunks written while the decoder holds its buffer
C35_WhileBufferHeld ==
  [][(ChunkWritten /\ unconsumedBytes # Deleted) => callbacks' = 1]_vars

----------------------------------------------------------------------------
(* C36 *)

\* what _transform does with the chunk being written
ChunkHandled == transform(This, SubSeq(input, delivered + 1, delivered'))

\* the handler left because an iteration of the record loop threw: the
\* error is the last thing it raised
LoopAborted(after) ==
  /\ Len(Errors(after.events)) > Len(Errors(events))
  /\ after.events[Len(after.events)].type = "error"

\* the iterations the record loop began are the records it counted, and one
\* more when it was aborted; they are no more than the records that were
\* still expected when the chunk arrived
LoopIsBounded(after) ==
  /\ after.iterations
       = (after.totalRecordCount - totalRecordCount)
           + (IF LoopAborted(after) THEN 1 ELSE 0)
  /\ after.iterations
       <= Max(0, after.header.numberOfRecords - totalRecordCount)

\* C36: the processing of one chunk always terminates.  For every accepted
\* header, also with a declared record length of zero or less, the record
\* loop performs at most numberOfRecords - totalRecordCount iterations:
\* each iteration either adds one to totalRecordCount or aborts with an
\* error.
C36_LoopTerminates ==
  [][(ChunkWritten /\ unconsumedBytes # Deleted /\ HeaderParsed')
       => LoopIsBounded(ChunkHandled)]_vars

\* a header declaring two records of length -1 was accepted; the loop
\* counted one record and its second iteration was aborted
C36_Witness ==
  /\ HeaderParsed
  /\ header.numberOfBytesInRecord = -1
  /\ header.numberOfRecords = 2
  /\ totalRecordCount = 1
  /\ Len(Records(events)) = 1
  /\ Errors(events) # <<>>
  /\ events[Len(events)].type = "error"

\* a header declaring records of length zero was accepted; the first
\* iteration of the loop was aborted
C36_WitnessZeroLength ==
  /\ HeaderParsed
  /\ header.numberOfBytesInRecord = 0
  /\ header.numberOfRecords >= 1
  /\ totalRecordCount = 0
  /\ Errors(events) # <<>>

====
